---- MODULE Spec2Model ----
(***************************************************************************)
(* Storage engine and blocking-wait coordinator of redis-rust              *)
(* (src/src/storage.rs), driven through the command handlers of            *)
(* src/src/command.rs by one worker thread per connection                  *)
(* (src/src/server.rs).                                                    *)
(*                                                                         *)
(* Granularity: one action per critical section.  Storage keeps the        *)
(* keyspace behind `inner: Mutex<HashMap>` and the waiter queue behind     *)
(* `waiters: Mutex<VecDeque>`; everything a thread does while it holds one *)
(* of the two locks is one atomic step, and the thread-local work between  *)
(* two lock acquisitions is folded into the step that precedes it.         *)
(*                                                                         *)
(* Every connection sends one command.  Connections are accepted in order  *)
(* (RedisServer::run), so connection c is the c-th one to start.           *)
(* List elements are numbered in the order in which they enter the         *)
(* keyspace, which makes each pushed element instance distinguishable.     *)
(*                                                                         *)
(* SpecLocks refines the granularity: Mutex::lock is a step of its own     *)
(* there.  SpecCodec and SpecSession follow one connection through         *)
(* handle_connection and the RESP decoder (src/src/lib.rs); in SpecSession *)
(* that connection sends several commands.                                 *)
(***************************************************************************)
EXTENDS Integers, Sequences, FiniteSets, TLC

VARIABLES
    store,      \* Storage.inner : key -> StoredValue
    waiters,    \* Storage.waiters : VecDeque<Waiter>, front first
    chan,       \* the mpsc channel created by each connection's BLPOP
    pc,         \* where each connection's worker thread is
    op,         \* the command each connection sent (with what it saw on entry)
    idx,        \* Storage::blpop: position of `for key in &keys`
    held,       \* notify_waiters: the Waiter taken out of the queue (0: none)
    reply,      \* what the handler returned to the connection
    nconn,      \* connections accepted so far
    nelem,      \* elements pushed so far
    now,        \* SystemTime::now(), in milliseconds
    byte_buffer,\* RespParser.byte_buffer
    result,     \* what the last RespParser::parse returned
    stage,      \* the decoder's caller: start, fed (bytes arrived since the
                \* last parse), parsed (result is the parse of byte_buffer)
    wire,       \* bytes written to the socket and not yet read
    frames,     \* the values whose bytes are written to the socket
    origin,     \* who wrote them: a client, or one of the reply writers
    fed,        \* every byte fed to the parser so far
    taken,      \* bytes consumed so far
    decoded,    \* the values of the Complete results consumed so far
    split,      \* a read ended in the middle of a frame
    out,        \* what the worker wrote to the socket, one entry per write_all
    mutex       \* the thread inside each of the two Mutexes (0: unlocked)

codec == <<byte_buffer, result, stage, wire, frames, origin, fed, taken,
           decoded, split, out>>

vars == <<store, waiters, chan, pc, op, idx, held, reply, nconn, nelem, now,
          codec, mutex>>

---------------------------------------------------------------------------
(* Bounds *)

MaxConns == 3        \* connections (one command each) in Spec
FifoConns == 4       \* connections in SpecFifo
MaxPush == 2         \* values carried by one RPUSH / LPUSH
MaxMs == 1           \* largest PX argument, and milliseconds the clock is read past a second
MaxArray == 2        \* elements of an array a client sends or LRANGE replies
RangeConns == 2      \* connections in SpecRange
MaxCmds == 2         \* commands one client sends on its connection
LockConns == 2       \* connections in SpecLocks

MaxOf(a, b) == IF a > b THEN a ELSE b
MinOf(a, b) == IF a < b THEN a ELSE b

Conns == 1..MaxOf(MaxConns, FifoConns)

\* elements[0] of a BLPOP command, as extract_key renders it
CmdName == "BLPOP"
ListKeys == {"a", "b"}
Keys == ListKeys \cup {CmdName}

\* timeouts a client sends: negative, zero (wait forever), positive
Timeouts == {-1, 0, 1}

\* Duration::from_secs against Duration::from_millis
MsPerSec == 1000

\* i64::MAX, the largest integer extract_integer_from_resp_value parses and
\* the largest tv_sec a SystemTime holds; the 64-bit range is scaled to the
\* 32-bit integers of the model checker
I64Max == 2147483647

\* the clock reading when the server starts, and the readings looked at:
\* up to MaxMs milliseconds past that second and past the next one
Start == MsPerSec
Instants == {Start + s * MsPerSec + m : s \in 0..1, m \in 0..MaxMs}

---------------------------------------------------------------------------
(* StoredValue *)

\* expired_at: None
NoExpiry == -1

\* kind: the variant of StoredData ("none": no entry under the key); list: the
\* elements of a List or the entries of a Stream; str: the bytes of a String;
\* exp: expired_at
Absent == [kind |-> "none", list |-> <<>>, str |-> 0, exp |-> NoExpiry]
StrVal(s, e) == [kind |-> "string", list |-> <<>>, str |-> s, exp |-> e]
ListVal(l) == [kind |-> "list", list |-> l, str |-> 0, exp |-> NoExpiry]

\* the variant in which no deadline is ever looked at
never_expired(v) == FALSE

\* StoredValue::is_expired
is_expired(v) == v.exp # NoExpiry /\ now >= v.exp

\* results of the storage calls; Panic: the call unwinds the worker thread
None == [tag |-> "none", vals |-> <<>>]
Panic == [tag |-> "panic", vals |-> <<>>]
Some(vs) == [tag |-> "some", vals |-> vs]
Err == [tag |-> "err", vals |-> <<>>]

Remove(st, key) == [st EXCEPT ![key] = Absent]

\* the variant that leaves the head in place (list[0].clone() for list.remove(0))
lpop_keep(st, key) ==
    LET v == st[key] IN
    IF v.kind = "none" THEN [store |-> st, res |-> None]
    ELSE IF is_expired(v) THEN [store |-> Remove(st, key), res |-> None]
    ELSE IF v.kind = "list" THEN
        IF v.list = <<>> THEN [store |-> Remove(st, key), res |-> None]
        ELSE [store |-> st, res |-> Some(<<Head(v.list)>>)]
    ELSE [store |-> st, res |-> Err]

\* the variant that takes the tail element (list.pop() for list.remove(0))
lpop_last(st, key) ==
    LET v == st[key] IN
    IF v.kind = "none" THEN [store |-> st, res |-> None]
    ELSE IF is_expired(v) THEN [store |-> Remove(st, key), res |-> None]
    ELSE IF v.kind = "list" THEN
        IF v.list = <<>> THEN [store |-> Remove(st, key), res |-> None]
        ELSE LET n == Len(v.list)
                 rest == SubSeq(v.list, 1, n - 1) IN
             [store |-> IF rest = <<>> THEN Remove(st, key)
                        ELSE [st EXCEPT ![key] = ListVal(rest)],
              res |-> Some(<<v.list[n]>>)]
    ELSE [store |-> st, res |-> Err]

\* the variant that leaves the emptied list under its key
lpop_leave(st, key) ==
    LET v == st[key] IN
    IF v.kind = "none" THEN [store |-> st, res |-> None]
    ELSE IF is_expired(v) THEN [store |-> Remove(st, key), res |-> None]
    ELSE IF v.kind = "list" THEN
        IF v.list = <<>> THEN [store |-> Remove(st, key), res |-> None]
        ELSE [store |-> [st EXCEPT ![key] = ListVal(Tail(v.list))],
              res |-> Some(<<Head(v.list)>>)]
    ELSE [store |-> st, res |-> Err]

\* Storage::lpop
lpop(st, key) ==
    LET v == st[key] IN
    IF v.kind = "none" THEN [store |-> st, res |-> None]
    ELSE IF is_expired(v) THEN [store |-> Remove(st, key), res |-> None]
    ELSE IF v.kind = "list" THEN
        IF v.list = <<>> THEN [store |-> Remove(st, key), res |-> None]
        ELSE LET rest == Tail(v.list) IN
             [store |-> IF rest = <<>> THEN Remove(st, key)
                        ELSE [st EXCEPT ![key] = ListVal(rest)],
              res |-> Some(<<Head(v.list)>>)]
    ELSE [store |-> st, res |-> Err]

\* `count as usize` of handle_lpop: a negative count wraps to 2^64 + count;
\* the 64-bit range is scaled like I64Max
as_usize(count) == IF count < 0 THEN I64Max + (count + 1) ELSE count

\* the variant that drains from the back of the list
lpop_multiple_back(st, key, count) ==
    LET v == st[key] IN
    IF v.kind = "none" THEN [store |-> st, res |-> None]
    ELSE IF is_expired(v) THEN [store |-> Remove(st, key), res |-> None]
    ELSE IF v.kind = "list" THEN
        IF v.list = <<>> THEN [store |-> Remove(st, key), res |-> None]
        ELSE LET n == MinOf(count, Len(v.list))
                 rest == SubSeq(v.list, 1, Len(v.list) - n) IN
             [store |-> IF rest = <<>> THEN Remove(st, key)
                        ELSE [st EXCEPT ![key] = ListVal(rest)],
              res |-> Some(SubSeq(v.list, Len(v.list) - n + 1, Len(v.list)))]
    ELSE [store |-> st, res |-> Err]

\* Storage::lpop_multiple
lpop_multiple(st, key, count) ==
    LET v == st[key] IN
    IF v.kind = "none" THEN [store |-> st, res |-> None]
    ELSE IF is_expired(v) THEN [store |-> Remove(st, key), res |-> None]
    ELSE IF v.kind = "list" THEN
        IF v.list = <<>> THEN [store |-> Remove(st, key), res |-> None]
        ELSE LET n == MinOf(count, Len(v.list))
                 rest == SubSeq(v.list, n + 1, Len(v.list)) IN
             [store |-> IF rest = <<>> THEN Remove(st, key)
                        ELSE [st EXCEPT ![key] = ListVal(rest)],
              res |-> Some(SubSeq(v.list, 1, n))]
    ELSE [store |-> st, res |-> Err]

\* values.into_iter().rev().collect()
Rev(s) == [i \in 1..Len(s) |-> s[Len(s) + 1 - i]]

\* the variant that returns values.len() where it returns list.len()
rpush_short(st, key, values) ==
    LET v == st[key] IN
    IF v.kind # "none" /\ ~is_expired(v) THEN
        IF v.kind = "list" THEN
            [store |-> [st EXCEPT ![key] = ListVal(v.list \o values)],
             res |-> Some(<<Len(values)>>)]
        ELSE [store |-> st, res |-> Err]
    ELSE [store |-> [st EXCEPT ![key] = ListVal(values)],
          res |-> Some(<<Len(values)>>)]

\* the variant that treats a String like a missing key
rpush_over(st, key, values) ==
    LET v == st[key] IN
    IF v.kind = "list" /\ ~is_expired(v) THEN
        [store |-> [st EXCEPT ![key] = ListVal(v.list \o values)],
         res |-> Some(<<Len(v.list) + Len(values)>>)]
    ELSE [store |-> [st EXCEPT ![key] = ListVal(values)],
          res |-> Some(<<Len(values)>>)]

\* the keyspace part of Storage::rpush (res: the length returned, or Err)
rpush_store(st, key, values) ==
    LET v == st[key] IN
    IF v.kind # "none" /\ ~is_expired(v) THEN
        IF v.kind = "list" THEN
            [store |-> [st EXCEPT ![key] = ListVal(v.list \o values)],
             res |-> Some(<<Len(v.list) + Len(values)>>)]
        ELSE [store |-> st, res |-> Err]
    ELSE [store |-> [st EXCEPT ![key] = ListVal(values)],
          res |-> Some(<<Len(values)>>)]

\* the variant without values.into_iter().rev()
lpush_plain(st, key, values) ==
    LET v == st[key] IN
    IF v.kind # "none" /\ ~is_expired(v) THEN
        IF v.kind = "list" THEN
            [store |-> [st EXCEPT ![key] = ListVal(values \o v.list)],
             res |-> Some(<<Len(v.list) + Len(values)>>)]
        ELSE [store |-> st, res |-> Err]
    ELSE [store |-> [st EXCEPT ![key] = ListVal(values)],
          res |-> Some(<<Len(values)>>)]

\* the keyspace part of Storage::lpush
lpush_store(st, key, values) ==
    LET v == st[key] IN
    IF v.kind # "none" /\ ~is_expired(v) THEN
        IF v.kind = "list" THEN
            [store |-> [st EXCEPT ![key] = ListVal(Rev(values) \o v.list)],
             res |-> Some(<<Len(v.list) + Len(values)>>)]
        ELSE [store |-> st, res |-> Err]
    ELSE [store |-> [st EXCEPT ![key] = ListVal(Rev(values))],
          res |-> Some(<<Len(values)>>)]

\* Storage::lrange with start = 0, end = -1 (the whole list)
lrange_all(st, key) ==
    LET v == st[key] IN
    IF v.kind = "none" THEN [store |-> st, res |-> Some(<<>>)]
    ELSE IF is_expired(v) THEN [store |-> Remove(st, key), res |-> Some(<<>>)]
    ELSE IF v.kind = "list" THEN [store |-> st, res |-> Some(v.list)]
    ELSE [store |-> st, res |-> Err]

\* the variant that takes list[start_idx..end_idx], end excluded
lrange_open(st, key, start, end) ==
    LET v == st[key] IN
    IF v.kind = "none" THEN [store |-> st, res |-> Some(<<>>)]
    ELSE IF is_expired(v) THEN [store |-> Remove(st, key), res |-> Some(<<>>)]
    ELSE IF v.kind = "list" THEN
        LET len == Len(v.list)
            start_idx == IF start < 0 THEN MaxOf(len + start, 0) ELSE start
            end_idx == IF end < 0 THEN MaxOf(len + end, 0)
                       ELSE IF end >= len THEN len - 1
                       ELSE end
        IN [store |-> st,
            res |-> IF start_idx > end_idx \/ start_idx >= len THEN Some(<<>>)
                    ELSE Some(SubSeq(v.list, start_idx + 1, end_idx))]
    ELSE [store |-> st, res |-> Err]

\* Storage::lrange; positions count from 0, so list[start_idx..=end_idx] is
\* SubSeq(list, start_idx + 1, end_idx + 1).  (`list.len() - 1` is taken of
\* a non-empty list only: no command stores an empty one.)
lrange(st, key, start, end) ==
    LET v == st[key] IN
    IF v.kind = "none" THEN [store |-> st, res |-> Some(<<>>)]
    ELSE IF is_expired(v) THEN [store |-> Remove(st, key), res |-> Some(<<>>)]
    ELSE IF v.kind = "list" THEN
        LET len == Len(v.list)
            start_idx == IF start < 0 THEN MaxOf(len + start, 0) ELSE start
            end_idx == IF end < 0 THEN MaxOf(len + end, 0)
                       ELSE IF end >= len THEN len - 1
                       ELSE end
        IN [store |-> st,
            res |-> IF start_idx > end_idx \/ start_idx >= len THEN Some(<<>>)
                    ELSE Some(SubSeq(v.list, start_idx + 1, end_idx + 1))]
    ELSE [store |-> st, res |-> Err]

\* Storage::llen
llen(st, key) ==
    LET v == st[key] IN
    IF v.kind = "none" THEN [store |-> st, res |-> Some(<<0>>)]
    ELSE IF is_expired(v) THEN [store |-> Remove(st, key), res |-> Some(<<0>>)]
    ELSE IF v.kind = "list" THEN [store |-> st, res |-> Some(<<Len(v.list)>>)]
    ELSE [store |-> st, res |-> Err]

\* the variant that keeps the deadline of the entry it replaces
set_keep(st, key, value) == [st EXCEPT ![key] = StrVal(value, st[key].exp)]

\* Storage::set
set(st, key, value) == [st EXCEPT ![key] = StrVal(value, NoExpiry)]

\* SystemTime::now() + Duration::from_secs(seconds) panics ("overflow when
\* adding duration to instant") when tv_sec + seconds exceeds i64::MAX
AddOverflows(seconds) == seconds > I64Max - (now \div MsPerSec)

\* Storage::set_ex, when the addition does not overflow
set_ex(st, key, value, seconds) ==
    [st EXCEPT ![key] = StrVal(value, now + seconds * MsPerSec)]

\* Storage::set_px
set_px(st, key, value, milliseconds) ==
    [st EXCEPT ![key] = StrVal(value, now + milliseconds)]

\* Storage::get: as_string() is None for every kind but String
get(st, key) ==
    LET v == st[key] IN
    IF v.kind = "none" THEN [store |-> st, res |-> None]
    ELSE IF is_expired(v) THEN [store |-> Remove(st, key), res |-> None]
    ELSE IF v.kind = "string" THEN [store |-> st, res |-> Some(<<v.str>>)]
    ELSE [store |-> st, res |-> None]

\* Storage::get_type (it does not remove an expired entry)
get_type(st, key) ==
    LET v == st[key] IN
    IF v.kind = "none" THEN "none"
    ELSE IF is_expired(v) THEN "none"
    ELSE v.kind

\* Storage::exists: store.contains_key(key)
exists(st, key) == st[key].kind # "none"

\* Storage::delete: store.remove(key).is_some()
delete(st, key) == [store |-> Remove(st, key), res |-> st[key].kind # "none"]

\* handle_set: `expiration`, None or Some((n, is_px))
NoExpiration == [some |-> FALSE, n |-> 0, px |-> FALSE]
Expiration(n, px) == [some |-> TRUE, n |-> n, px |-> px]

\* an option of SET with its argument, elements[i] and elements[i + 1]
Opt(name, n) == [name |-> name, n |-> n]

RECURSIVE parse_options(_, _)
\* handle_set, the `while i < elements.len()` loop over the options: a later
\* EX or PX replaces the expiration an earlier one set
parse_options(opts, expiration) ==
    IF opts = <<>> THEN [tag |-> "ok", expiration |-> expiration]
    ELSE LET o == Head(opts) IN
        IF o.name = "EX" THEN
            IF o.n > 0 THEN parse_options(Tail(opts), Expiration(o.n, FALSE))
            ELSE [tag |-> "invalid expire time", expiration |-> expiration]
        ELSE IF o.name = "PX" THEN
            IF o.n > 0 THEN parse_options(Tail(opts), Expiration(o.n, TRUE))
            ELSE [tag |-> "invalid expire time", expiration |-> expiration]
        ELSE [tag |-> "syntax error", expiration |-> expiration]

---------------------------------------------------------------------------
(* Waiter queue *)

Contains(ks, key) == \E i \in 1..Len(ks) : ks[i] = key

\* waiters.iter().position(|w| w.keys.contains(key)); 0 when there is none
Position(ws, key) ==
    IF \E i \in 1..Len(ws) : Contains(ws[i].keys, key)
    THEN CHOOSE i \in 1..Len(ws) :
            /\ Contains(ws[i].keys, key)
            /\ \A j \in 1..(i - 1) : ~Contains(ws[j].keys, key)
    ELSE 0

\* VecDeque::remove(pos)
RemoveAt(ws, pos) == SubSeq(ws, 1, pos - 1) \o SubSeq(ws, pos + 1, Len(ws))

RECURSIVE retain_same(_, _)
\* the variant with the test turned round (w.keys == keys)
retain_same(ws, ks) ==
    IF ws = <<>> THEN <<>>
    ELSE IF Head(ws).keys = ks THEN <<Head(ws)>> \o retain_same(Tail(ws), ks)
    ELSE retain_same(Tail(ws), ks)

RECURSIVE Retain(_, _)
\* waiters.retain(|w| w.keys != keys)
Retain(ws, ks) ==
    IF ws = <<>> THEN <<>>
    ELSE IF Head(ws).keys # ks THEN <<Head(ws)>> \o Retain(Tail(ws), ks)
    ELSE Retain(Tail(ws), ks)

\* the waiters a retain drops (their Sender is dropped with them)
Dropped(ws, ks) == {ws[i].id : i \in {j \in 1..Len(ws) : ws[j].keys = ks}}

---------------------------------------------------------------------------
(* Streams *)

\* the id argument of XADD and XREAD: "<ms>-<seq>", or "*" (auto)
EntryId(ms, seq) == [auto |-> FALSE, ms |-> ms, seq |-> seq]
AutoId == [auto |-> TRUE, ms |-> 0, seq |-> 0]

\* impl Ord for EntryId: a < b
IdLess(a, b) == a.ms < b.ms \/ (a.ms = b.ms /\ a.seq < b.seq)

\* Storage::xadd: todo!()
xadd(st, key, id) == [store |-> st, res |-> Panic]

\* Storage::xread(key, id), which handle_xread calls: the entries of the
\* stream under key whose id is greater than id, in stream order
xread(st, key, id) ==
    LET v == st[key]
        Newer(e) == IdLess(id, e.id) IN
    IF v.kind = "none" THEN [store |-> st, res |-> Some(<<>>)]
    ELSE IF v.kind = "stream"
         THEN [store |-> st, res |-> Some(SelectSeq(v.list, Newer))]
    ELSE [store |-> st, res |-> Err]

\* format_xread: nothing for no entry, else one [stream_name, entries] pair
format_xread(stream_name, items) ==
    IF items = <<>> THEN <<>>
    ELSE <<[key |-> stream_name, entries |-> items]>>

---------------------------------------------------------------------------
(* RespValue, ParseResult and RespParser (src/src/lib.rs) *)

\* Bytes are one-character strings; XFF stands for the byte 0xFF, which
\* occurs in no UTF-8 text, and XEF, XBF, XBD for the three bytes of U+FFFD.
CR == "\r"
LF == "\n"
CRLF == <<CR, LF>>
DigitBytes == <<"0", "1", "2", "3", "4", "5", "6", "7", "8", "9">>
Ascii == {"a", "b", "+", "-", ":", "$", "*", CR, LF} \cup
         {DigitBytes[i] : i \in 1..10}
Replacement == <<"XEF", "XBF", "XBD">>

\* std::str::from_utf8(bytes).is_ok(), on the bytes above
RECURSIVE Utf8Ok(_)
Utf8Ok(bytes) ==
    IF bytes = <<>> THEN TRUE
    ELSE IF Head(bytes) \in Ascii THEN Utf8Ok(Tail(bytes))
    ELSE /\ Len(bytes) >= 3
         /\ SubSeq(bytes, 1, 3) = Replacement
         /\ Utf8Ok(SubSeq(bytes, 4, Len(bytes)))

\* RespValue; BulkString(None) and Array(None) have some = FALSE
RespVal(t, some, s, n, es) ==
    [t |-> t, some |-> some, s |-> s, n |-> n, es |-> es]
SimpleString(s) == RespVal("SimpleString", TRUE, s, 0, <<>>)
Error(s) == RespVal("Error", TRUE, s, 0, <<>>)
Integer(n) == RespVal("Integer", TRUE, <<>>, n, <<>>)
BulkString(b) == RespVal("BulkString", TRUE, b, 0, <<>>)
NullBulk == RespVal("BulkString", FALSE, <<>>, 0, <<>>)
Array(es) == RespVal("Array", TRUE, <<>>, 0, es)
NullArray == RespVal("Array", FALSE, <<>>, 0, <<>>)
NoValue == RespVal("none", FALSE, <<>>, 0, <<>>)

\* ParseResult
Complete(v, n) == [tag |-> "Complete", value |-> v, n |-> n]
Incomplete == [tag |-> "Incomplete", value |-> NoValue, n |-> 0]
ParseError == [tag |-> "Error", value |-> NoValue, n |-> 0]
NoResult == [tag |-> "none", value |-> NoValue, n |-> 0]

\* the message carried by ParseResult::Error, whatever its wording
ErrorText == <<"Invalid frame">>

\* positions count from 0 as in the source: At(buf, pos) is byte_buffer[pos]
At(buf, pos) == buf[pos + 1]

\* RespParser::has_bytes
has_bytes(buf, pos, n) == pos + n <= Len(buf)

\* find_crlf's None
NotFound == -1

\* RespParser::find_crlf
find_crlf(buf, pos) ==
    LET hits == {p \in pos..(Len(buf) - 2) :
                    At(buf, p) = CR /\ At(buf, p + 1) = LF}
    IN IF hits = {} THEN NotFound
       ELSE CHOOSE p \in hits : \A q \in hits : p <= q

\* RespParser::get_slice
get_slice(buf, start, end) ==
    IF start <= end /\ end <= Len(buf)
    THEN [ok |-> TRUE, bytes |-> SubSeq(buf, start + 1, end)]
    ELSE [ok |-> FALSE, bytes |-> <<>>]

DigitVal(b) == CHOOSE d \in 0..9 : DigitBytes[d + 1] = b
IsDigit(b) == \E d \in 0..9 : DigitBytes[d + 1] = b

RECURSIVE DigitsVal(_)
DigitsVal(ds) ==
    IF ds = <<>> THEN 0
    ELSE DigitsVal(SubSeq(ds, 1, Len(ds) - 1)) * 10 + DigitVal(ds[Len(ds)])

\* the longest digit string whose value cannot exceed I64Max
MaxDigits == 9

\* RespParser::parse_i64: str::from_utf8, then str::parse::<i64> (an optional
\* sign, then at least one digit)
parse_i64(bytes) ==
    LET signed == bytes # <<>> /\ Head(bytes) \in {"-", "+"}
        ds == IF signed THEN Tail(bytes) ELSE bytes
    IN IF \/ ds = <<>>
          \/ Len(ds) > MaxDigits
          \/ \E i \in 1..Len(ds) : ~IsDigit(ds[i])
       THEN [ok |-> FALSE, n |-> 0]
       ELSE [ok |-> TRUE,
             n |-> IF signed /\ Head(bytes) = "-" THEN 0 - DigitsVal(ds)
                   ELSE DigitsVal(ds)]

\* the header line shared by all five parsers: find_crlf(pos + 1), then
\* get_slice(pos + 1, crlf_pos)
Line(buf, pos) ==
    LET crlf_pos == find_crlf(buf, pos + 1) IN
    [found |-> crlf_pos # NotFound,
     crlf_pos |-> crlf_pos,
     content |-> IF crlf_pos = NotFound THEN [ok |-> FALSE, bytes |-> <<>>]
                 ELSE get_slice(buf, pos + 1, crlf_pos)]

\* RespParser::parse_simle_string
parse_simle_string(buf, pos) ==
    IF ~has_bytes(buf, pos, 1) THEN Incomplete
    ELSE LET l == Line(buf, pos) IN
         IF ~l.found THEN Incomplete
         ELSE IF ~l.content.ok THEN ParseError
         ELSE IF ~Utf8Ok(l.content.bytes) THEN ParseError
         ELSE Complete(SimpleString(l.content.bytes), l.crlf_pos + 2 - pos)

\* RespParser::parse_error
parse_error(buf, pos) ==
    IF ~has_bytes(buf, pos, 1) THEN Incomplete
    ELSE LET l == Line(buf, pos) IN
         IF ~l.found THEN Incomplete
         ELSE IF ~l.content.ok THEN ParseError
         ELSE IF ~Utf8Ok(l.content.bytes) THEN ParseError
         ELSE Complete(Error(l.content.bytes), l.crlf_pos + 2 - pos)

\* the variant that reads an integer that is no number as 0
parse_integer_lenient(buf, pos) ==
    IF ~has_bytes(buf, pos, 1) THEN Incomplete
    ELSE LET l == Line(buf, pos) IN
         IF ~l.found THEN Incomplete
         ELSE IF ~l.content.ok THEN ParseError
         ELSE Complete(Integer(IF parse_i64(l.content.bytes).ok
                               THEN parse_i64(l.content.bytes).n ELSE 0),
                       l.crlf_pos + 2 - pos)

\* RespParser::parse_integer
parse_integer(buf, pos) ==
    IF ~has_bytes(buf, pos, 1) THEN Incomplete
    ELSE LET l == Line(buf, pos) IN
         IF ~l.found THEN Incomplete
         ELSE IF ~l.content.ok THEN ParseError
         ELSE LET i == parse_i64(l.content.bytes) IN
              IF i.ok THEN Complete(Integer(i.n), l.crlf_pos + 2 - pos)
              ELSE ParseError

\* the variant that does not wait for the trailing CRLF
parse_bulk_string_eager(buf, pos) ==
    IF ~has_bytes(buf, pos, 1) THEN Incomplete
    ELSE LET l == Line(buf, pos) IN
         IF ~l.found THEN Incomplete
         ELSE IF ~l.content.ok THEN ParseError
         ELSE LET length == parse_i64(l.content.bytes) IN
              IF ~length.ok THEN ParseError
              ELSE IF length.n = -1
                   THEN Complete(NullBulk, l.crlf_pos + 2 - pos)
              ELSE IF length.n < -1 THEN ParseError
              ELSE LET content_start == l.crlf_pos + 2
                       content_end == content_start + length.n
                   IN IF ~has_bytes(buf, content_end, 0) THEN Incomplete
                      ELSE Complete(
                             BulkString(SubSeq(buf, content_start + 1,
                                               content_end)),
                             content_end + 2 - pos)

\* RespParser::parse_bulk_string
parse_bulk_string(buf, pos) ==
    IF ~has_bytes(buf, pos, 1) THEN Incomplete
    ELSE LET l == Line(buf, pos) IN
         IF ~l.found THEN Incomplete
         ELSE IF ~l.content.ok THEN ParseError
         ELSE LET length == parse_i64(l.content.bytes) IN
              IF ~length.ok THEN ParseError
              ELSE IF length.n = -1
                   THEN Complete(NullBulk, l.crlf_pos + 2 - pos)
              ELSE IF length.n < -1 THEN ParseError
              ELSE LET content_start == l.crlf_pos + 2
                       content_end == content_start + length.n
                   IN IF ~has_bytes(buf, content_end, 2) THEN Incomplete
                      ELSE LET content ==
                                   get_slice(buf, content_start, content_end)
                               trailing_crlf ==
                                   get_slice(buf, content_end, content_end + 2)
                           IN IF ~content.ok THEN ParseError
                              ELSE IF trailing_crlf.bytes # CRLF
                                   THEN ParseError
                              ELSE Complete(BulkString(content.bytes),
                                            content_end + 2 - pos)

RECURSIVE parse_value(_, _)
RECURSIVE parse_array(_, _)
RECURSIVE parse_elements(_, _, _, _)

\* the loop `for _ in 0..element_count` of parse_array; the n of a Complete
\* result is current_pos when the loop ends
parse_elements(buf, current_pos, left, elements) ==
    IF left = 0 THEN Complete(Array(elements), current_pos)
    ELSE LET r == parse_value(buf, current_pos) IN
         IF r.tag = "Complete"
         THEN parse_elements(buf, current_pos + r.n, left - 1,
                             Append(elements, r.value))
         ELSE r

\* RespParser::parse_array
parse_array(buf, pos) ==
    IF ~has_bytes(buf, pos, 1) THEN Incomplete
    ELSE LET l == Line(buf, pos) IN
         IF ~l.found THEN Incomplete
         ELSE IF ~l.content.ok THEN ParseError
         ELSE LET count == parse_i64(l.content.bytes) IN
              IF ~count.ok THEN ParseError
              ELSE IF count.n = -1
                   THEN Complete(NullArray, l.crlf_pos + 2 - pos)
              ELSE IF count.n < -1 THEN ParseError
              ELSE IF count.n = 0
                   THEN Complete(Array(<<>>), l.crlf_pos + 2 - pos)
              ELSE LET r == parse_elements(buf, l.crlf_pos + 2, count.n, <<>>)
                   IN IF r.tag = "Complete"
                      THEN Complete(r.value, r.n - pos)
                      ELSE r

\* RespParser::parse_value
parse_value(buf, pos) ==
    IF ~has_bytes(buf, pos, 1) THEN Incomplete
    ELSE LET byte == At(buf, pos) IN
         IF byte = "+" THEN parse_simle_string(buf, pos)
         ELSE IF byte = "-" THEN parse_error(buf, pos)
         ELSE IF byte = ":" THEN parse_integer(buf, pos)
         ELSE IF byte = "$" THEN parse_bulk_string(buf, pos)
         ELSE IF byte = "*" THEN parse_array(buf, pos)
         ELSE ParseError

\* RespParser::parse
parse(buf) == parse_value(buf, 0)

\* the variant that forgets what was buffered
feed_replace(buf, data) == data

\* RespParser::feed
feed(buf, data) == buf \o data

\* the variant that drains one byte less
consume_short(buf, n) == SubSeq(buf, n, Len(buf))

\* RespParser::consume
consume(buf, n) == SubSeq(buf, n + 1, Len(buf))

---------------------------------------------------------------------------
(* Commands, replies, channels *)

NoOp == [cmd |-> "none", key |-> "", keys |-> <<>>, t |-> 0, count |-> 0,
         start |-> 0, end |-> 0,
         id |-> AutoId,     \* xadd: the id argument
         ids |-> <<>>,      \* xread: the id arguments
         nargs |-> 0,       \* xadd: arguments after the id
         found |-> <<>>,    \* xread: the entry under each of its keys
         vals |-> <<>>, ret |-> 0,
         \* what the command found when it entered Storage:
         solo  |-> FALSE,   \* no other command was in progress
         ws    |-> <<>>,    \* push: waiters queued on its key, front first
         wsp   |-> FALSE,   \* push: each of them parked on an open channel
         len0  |-> 0,       \* push: length of the list before the push
         first |-> 0,       \* blpop: leftmost key holding a non-empty list
         head  |-> 0,       \* blpop: the head of that list
         wrong |-> 0,       \* blpop: leftmost key holding another kind
         opts  |-> <<>>,    \* set: the options after the value
         at    |-> 0,       \* the clock when it took the keyspace lock
         was   |-> Absent,  \* the entry under its key at that moment
                            \* (blpop: the expired entry `stale` points at)
         stale |-> 0,       \* blpop: leftmost key holding an expired entry
         alive |-> FALSE]   \* blpop: some key holds an unexpired entry

NoReply == [tag |-> "none", key |-> "", vals |-> <<>>, clean |-> FALSE]
Rep(tag, key, vals, clean) ==
    [tag |-> tag, key |-> key, vals |-> vals, clean |-> clean]

\* st: none (no channel), open, msg (a pair is buffered), recvd (the pair was
\* received), closed (the Sender was dropped with nothing buffered).
\* ord: position in enqueue order; born: elements pushed before the enqueue;
\* toAt: elements pushed before the wait ended by timeout (-1: it did not).
NoChan == [st |-> "none", key |-> "", val |-> 0, ord |-> 0, born |-> 0,
           toAt |-> -1]

\* both Mutexes unlocked; at: the position of the owner when it locked
Unlocked ==
    [inner |-> [owner |-> 0, at |-> ""], waiters |-> [owner |-> 0, at |-> ""]]

Init ==
    /\ store = [k \in Keys |-> Absent]
    /\ waiters = <<>>
    /\ chan = [c \in Conns |-> NoChan]
    /\ pc = [c \in Conns |-> "new"]
    /\ op = [c \in Conns |-> NoOp]
    /\ idx = [c \in Conns |-> 0]
    /\ held = [c \in Conns |-> 0]
    /\ reply = [c \in Conns |-> NoReply]
    /\ nconn = 0
    /\ nelem = 0
    /\ now = Start
    /\ byte_buffer = <<>>
    /\ result = NoResult
    /\ stage = "start"
    /\ wire = <<>>
    /\ frames = <<>>
    /\ origin = "none"
    /\ fed = <<>>
    /\ taken = 0
    /\ decoded = <<>>
    /\ split = FALSE
    /\ out = <<>>
    /\ mutex = Unlocked

\* the next connection is accepted and its command is read
New(c) == pc[c] = "new" /\ c = nconn + 1

\* every other worker is finished, or parked in a BLPOP that waits forever
Solo(c) ==
    \A d \in 1..nconn : d # c =>
        \/ pc[d] \in {"done", "dead"}
        \/ pc[d] = "parked" /\ op[d].t = 0

\* the command of c ran from its start to here with no other command running
Clean(c) == op[c].solo /\ nconn = c

Fresh(n) == [i \in 1..n |-> nelem + i]

\* ids of the queued waiters whose keys contain key, front first
RECURSIVE Matching(_, _)
Matching(ws, key) ==
    IF ws = <<>> THEN <<>>
    ELSE IF Contains(Head(ws).keys, key)
         THEN <<Head(ws).id>> \o Matching(Tail(ws), key)
         ELSE Matching(Tail(ws), key)

---------------------------------------------------------------------------
(* Non-blocking commands that take the keyspace lock once *)

\* handle_set -> Storage::set
Set(c, k) ==
    /\ New(c)
    /\ nconn' = c
    /\ op' = [op EXCEPT ![c] = [NoOp EXCEPT !.cmd = "SET", !.key = k,
                                            !.solo = Solo(c),
                                            !.at = now, !.was = store[k]]]
    /\ store' = set(store, k, c)
    /\ reply' = [reply EXCEPT ![c] = Rep("ok", "", <<>>, Solo(c))]
    /\ pc' = [pc EXCEPT ![c] = "done"]
    /\ UNCHANGED <<waiters, chan, idx, held, nelem, now, codec, mutex>>

\* handle_lpop with two elements -> Storage::lpop
Lpop(c, k) ==
    /\ New(c)
    /\ nconn' = c
    /\ op' = [op EXCEPT ![c] = [NoOp EXCEPT !.cmd = "LPOP", !.key = k,
                                            !.solo = Solo(c),
                                            !.at = now, !.was = store[k]]]
    /\ LET r == lpop(store, k) IN
        /\ store' = r.store
        /\ reply' = [reply EXCEPT ![c] =
              IF r.res.tag = "some" THEN Rep("bulk", "", r.res.vals, Solo(c))
              ELSE IF r.res.tag = "none" THEN Rep("nil", "", <<>>, Solo(c))
              ELSE Rep("err", "", <<>>, Solo(c))]
    /\ pc' = [pc EXCEPT ![c] = "done"]
    /\ UNCHANGED <<waiters, chan, idx, held, nelem, now, codec, mutex>>

\* handle_lpop with three elements -> Storage::lpop_multiple
LpopCount(c, k, count) ==
    /\ New(c)
    /\ nconn' = c
    /\ op' = [op EXCEPT ![c] = [NoOp EXCEPT !.cmd = "LPOPN", !.key = k,
                                            !.count = count,
                                            !.solo = Solo(c),
                                            !.at = now, !.was = store[k]]]
    /\ LET r == lpop_multiple(store, k, as_usize(count)) IN
        /\ store' = r.store
        /\ reply' = [reply EXCEPT ![c] =
              IF r.res.tag = "some" THEN Rep("array", "", r.res.vals, Solo(c))
              ELSE IF r.res.tag = "none" THEN Rep("nil", "", <<>>, Solo(c))
              ELSE Rep("err", "", <<>>, Solo(c))]
    /\ pc' = [pc EXCEPT ![c] = "done"]
    /\ UNCHANGED <<waiters, chan, idx, held, nelem, now, codec, mutex>>

\* handle_lrange -> Storage::lrange(key, 0, -1)
Lrange(c, k) ==
    /\ New(c)
    /\ nconn' = c
    /\ op' = [op EXCEPT ![c] = [NoOp EXCEPT !.cmd = "LRANGE", !.key = k,
                                            !.solo = Solo(c),
                                            !.at = now, !.was = store[k]]]
    /\ LET r == lrange_all(store, k) IN
        /\ store' = r.store
        /\ reply' = [reply EXCEPT ![c] =
              IF r.res.tag = "some" THEN Rep("array", "", r.res.vals, Solo(c))
              ELSE Rep("err", "", <<>>, Solo(c))]
    /\ pc' = [pc EXCEPT ![c] = "done"]
    /\ UNCHANGED <<waiters, chan, idx, held, nelem, now, codec, mutex>>

\* handle_lrange -> Storage::lrange(key, start, end)
LrangeAt(c, k, start, end) ==
    /\ New(c)
    /\ nconn' = c
    /\ op' = [op EXCEPT ![c] = [NoOp EXCEPT !.cmd = "LRANGE", !.key = k,
                                            !.start = start, !.end = end,
                                            !.solo = Solo(c),
                                            !.at = now, !.was = store[k]]]
    /\ LET r == lrange(store, k, start, end) IN
        /\ store' = r.store
        /\ reply' = [reply EXCEPT ![c] =
              IF r.res.tag = "some" THEN Rep("array", "", r.res.vals, Solo(c))
              ELSE Rep("err", "", <<>>, Solo(c))]
    /\ pc' = [pc EXCEPT ![c] = "done"]
    /\ UNCHANGED <<waiters, chan, idx, held, nelem, now, codec, mutex>>

\* handle_llen -> Storage::llen
Llen(c, k) ==
    /\ New(c)
    /\ nconn' = c
    /\ op' = [op EXCEPT ![c] = [NoOp EXCEPT !.cmd = "LLEN", !.key = k,
                                            !.solo = Solo(c),
                                            !.at = now, !.was = store[k]]]
    /\ LET r == llen(store, k) IN
        /\ store' = r.store
        /\ reply' = [reply EXCEPT ![c] =
              IF r.res.tag = "some" THEN Rep("int", "", r.res.vals, Solo(c))
              ELSE Rep("err", "", <<>>, Solo(c))]
    /\ pc' = [pc EXCEPT ![c] = "done"]
    /\ UNCHANGED <<waiters, chan, idx, held, nelem, now, codec, mutex>>

\* handle_set with options -> Storage::set_ex / set_px / set; the value is
\* numbered after the connection, as in Set
SetWith(c, k, opts) ==
    /\ New(c)
    /\ nconn' = c
    /\ op' = [op EXCEPT ![c] = [NoOp EXCEPT !.cmd = "SET", !.key = k,
                                            !.opts = opts, !.solo = Solo(c),
                                            !.at = now, !.was = store[k]]]
    /\ LET p == parse_options(opts, NoExpiration)
           e == p.expiration IN
        IF p.tag # "ok"
        THEN /\ store' = store
             /\ reply' = [reply EXCEPT ![c] = Rep("err", p.tag, <<>>, Solo(c))]
             /\ pc' = [pc EXCEPT ![c] = "done"]
        ELSE IF e.some /\ ~e.px /\ AddOverflows(e.n)
        THEN \* the worker thread panics before it takes the lock
             /\ store' = store
             /\ reply' = reply
             /\ pc' = [pc EXCEPT ![c] = "dead"]
        ELSE /\ store' = IF ~e.some THEN set(store, k, c)
                         ELSE IF e.px THEN set_px(store, k, c, e.n)
                         ELSE set_ex(store, k, c, e.n)
             /\ reply' = [reply EXCEPT ![c] = Rep("ok", "", <<>>, Solo(c))]
             /\ pc' = [pc EXCEPT ![c] = "done"]
    /\ UNCHANGED <<waiters, chan, idx, held, nelem, now, codec, mutex>>

\* handle_get -> Storage::get
Get(c, k) ==
    /\ New(c)
    /\ nconn' = c
    /\ op' = [op EXCEPT ![c] = [NoOp EXCEPT !.cmd = "GET", !.key = k,
                                            !.solo = Solo(c),
                                            !.at = now, !.was = store[k]]]
    /\ LET r == get(store, k) IN
        /\ store' = r.store
        /\ reply' = [reply EXCEPT ![c] =
              IF r.res.tag = "some" THEN Rep("bulk", "", r.res.vals, Solo(c))
              ELSE Rep("nil", "", <<>>, Solo(c))]
    /\ pc' = [pc EXCEPT ![c] = "done"]
    /\ UNCHANGED <<waiters, chan, idx, held, nelem, now, codec, mutex>>

\* handle_xadd -> Storage::xadd; nargs arguments follow the id
Xadd(c, k, id, nargs) ==
    /\ New(c)
    /\ nconn' = c
    /\ op' = [op EXCEPT ![c] = [NoOp EXCEPT !.cmd = "XADD", !.key = k,
                                            !.id = id, !.nargs = nargs,
                                            !.solo = Solo(c),
                                            !.at = now, !.was = store[k]]]
    /\ IF 3 + nargs < 5 \/ nargs % 2 # 0
       THEN /\ store' = store
            /\ reply' = [reply EXCEPT ![c] =
                  Rep("err", "wrong number of arguments", <<>>, Solo(c))]
            /\ pc' = [pc EXCEPT ![c] = "done"]
       ELSE LET r == xadd(store, k, id) IN
            /\ store' = r.store
            /\ IF r.res.tag = "panic"
               THEN /\ reply' = reply
                    /\ pc' = [pc EXCEPT ![c] = "dead"]
               ELSE /\ reply' = [reply EXCEPT ![c] =
                          IF r.res.tag = "some"
                          THEN Rep("bulk", "", r.res.vals, Solo(c))
                          ELSE Rep("err", "", <<>>, Solo(c))]
                    /\ pc' = [pc EXCEPT ![c] = "done"]
    /\ UNCHANGED <<waiters, chan, idx, held, nelem, now, codec, mutex>>

\* handle_xread -> Storage::xread -> format_xread; the command is
\* XREAD STREAMS ks... ids...
Xread(c, ks, ids) ==
    /\ New(c)
    /\ nconn' = c
    /\ op' = [op EXCEPT ![c] = [NoOp EXCEPT !.cmd = "XREAD", !.key = ks[1],
                                            !.keys = ks, !.ids = ids,
                                            !.found = [i \in 1..Len(ks) |->
                                                          store[ks[i]]],
                                            !.solo = Solo(c),
                                            !.at = now, !.was = store[ks[1]]]]
    /\ IF 2 + Len(ks) + Len(ids) # 4
       THEN /\ store' = store
            /\ reply' = [reply EXCEPT ![c] =
                  Rep("err", "wrong number of arguments", <<>>, Solo(c))]
       ELSE LET r == xread(store, ks[1], ids[1]) IN
            /\ store' = r.store
            /\ reply' = [reply EXCEPT ![c] =
                  IF r.res.tag = "some"
                  THEN Rep("streams", "", format_xread(ks[1], r.res.vals),
                           Solo(c))
                  ELSE Rep("err", "", <<>>, Solo(c))]
    /\ pc' = [pc EXCEPT ![c] = "done"]
    /\ UNCHANGED <<waiters, chan, idx, held, nelem, now, codec, mutex>>

\* handle_type -> Storage::get_type
Type(c, k) ==
    /\ New(c)
    /\ nconn' = c
    /\ op' = [op EXCEPT ![c] = [NoOp EXCEPT !.cmd = "TYPE", !.key = k,
                                            !.solo = Solo(c),
                                            !.at = now, !.was = store[k]]]
    /\ reply' = [reply EXCEPT ![c] =
          Rep("type", get_type(store, k), <<>>, Solo(c))]
    /\ pc' = [pc EXCEPT ![c] = "done"]
    /\ UNCHANGED <<store, waiters, chan, idx, held, nelem, now, codec, mutex>>

\* a call of Storage::exists (pub; handle_command has no EXISTS arm)
Exists(c, k) ==
    /\ New(c)
    /\ nconn' = c
    /\ op' = [op EXCEPT ![c] = [NoOp EXCEPT !.cmd = "EXISTS", !.key = k,
                                            !.solo = Solo(c),
                                            !.at = now, !.was = store[k]]]
    /\ reply' = [reply EXCEPT ![c] =
          Rep(IF exists(store, k) THEN "true" ELSE "false", "", <<>>, Solo(c))]
    /\ pc' = [pc EXCEPT ![c] = "done"]
    /\ UNCHANGED <<store, waiters, chan, idx, held, nelem, now, codec, mutex>>

\* a call of Storage::delete (pub; handle_command has no DEL arm)
Delete(c, k) ==
    /\ New(c)
    /\ nconn' = c
    /\ op' = [op EXCEPT ![c] = [NoOp EXCEPT !.cmd = "DEL", !.key = k,
                                            !.solo = Solo(c),
                                            !.at = now, !.was = store[k]]]
    /\ LET r == delete(store, k) IN
        /\ store' = r.store
        /\ reply' = [reply EXCEPT ![c] =
              Rep(IF r.res THEN "true" ELSE "false", "", <<>>, Solo(c))]
    /\ pc' = [pc EXCEPT ![c] = "done"]
    /\ UNCHANGED <<waiters, chan, idx, held, nelem, now, codec, mutex>>

\* time passes: the clock is next read at a later instant
Tick ==
    /\ \E t \in Instants : t > now /\ now' = t
    /\ UNCHANGED <<store, waiters, chan, pc, op, idx, held, reply, nconn, nelem,
                 codec, mutex>>

---------------------------------------------------------------------------
(* RPUSH / LPUSH: keyspace lock, then notify_waiters *)

\* Storage::rpush / Storage::lpush up to drop(store)
Push(c, cmd, k, n) ==
    /\ New(c)
    /\ nconn' = c
    /\ LET values == Fresh(n)
           r == IF cmd = "RPUSH" THEN rpush_store(store, k, values)
                ELSE lpush_store(store, k, values)
           o == [NoOp EXCEPT !.cmd = cmd, !.key = k, !.vals = values,
                             !.solo = Solo(c), !.at = now, !.was = store[k],
                             !.ws = Matching(waiters, k),
                             !.wsp = \A w \in Conns :
                                 Contains(Matching(waiters, k), w) =>
                                     pc[w] = "parked" /\ chan[w].st = "open",
                             !.len0 = Len(store[k].list)]
       IN
        /\ store' = r.store
        /\ IF r.res.tag = "err"
           THEN /\ op' = [op EXCEPT ![c] = o]
                /\ reply' = [reply EXCEPT ![c] = Rep("err", "", <<>>, Solo(c))]
                /\ pc' = [pc EXCEPT ![c] = "done"]
                /\ nelem' = nelem
           ELSE /\ op' = [op EXCEPT ![c] = [o EXCEPT !.ret = r.res.vals[1]]]
                /\ reply' = reply
                /\ pc' = [pc EXCEPT ![c] = "notify"]
                /\ nelem' = nelem + n
    /\ UNCHANGED <<waiters, chan, idx, held, now, codec, mutex>>

\* handle_rpush
Rpush(c, k, n) == Push(c, "RPUSH", k, n)

\* handle_lpush
Lpush(c, k, n) == Push(c, "LPUSH", k, n)

\* notify_waiters, first block: take the first matching waiter out of the queue
Notify(c) ==
    /\ pc[c] = "notify"
    /\ LET pos == Position(waiters, op[c].key) IN
        IF pos = 0
        THEN /\ reply' = [reply EXCEPT ![c] =
                    Rep("int", "", <<op[c].ret>>, Clean(c))]
             /\ pc' = [pc EXCEPT ![c] = "done"]
             /\ UNCHANGED <<waiters, held>>
        ELSE /\ held' = [held EXCEPT ![c] = waiters[pos].id]
             /\ waiters' = RemoveAt(waiters, pos)
             /\ pc' = [pc EXCEPT ![c] = "deliver"]
             /\ reply' = reply
    /\ UNCHANGED <<store, chan, op, idx, nconn, nelem, now, codec, mutex>>

\* notify_waiters, second block: lpop(key) and send; the Waiter (and its
\* Sender) is dropped at the end of the block, sent or not
Deliver(c) ==
    /\ pc[c] = "deliver"
    /\ LET r == lpop(store, op[c].key)
           w == held[c] IN
        /\ store' = r.store
        /\ chan' = [chan EXCEPT ![w] =
              IF r.res.tag = "some"
              THEN [@ EXCEPT !.st = "msg", !.key = op[c].key,
                             !.val = r.res.vals[1]]
              ELSE [@ EXCEPT !.st = IF @ = "open" THEN "closed" ELSE @]]
    /\ held' = [held EXCEPT ![c] = 0]
    /\ reply' = [reply EXCEPT ![c] = Rep("int", "", <<op[c].ret>>, Clean(c))]
    /\ pc' = [pc EXCEPT ![c] = "done"]
    /\ UNCHANGED <<waiters, op, idx, nconn, nelem, now, codec, mutex>>

---------------------------------------------------------------------------
(* BLPOP *)

\* handle_blpop: keys_args = &elements[..elements.len() - 1], so the key
\* vector handed to Storage::blpop starts with elements[0], the command name
KeyVector(args) == <<CmdName>> \o args

\* Storage::blpop, the type test at the top of the loop body (it does not
\* look at the expiry)
WrongKind(st, key) == st[key].kind \notin {"none", "list"}

NonEmptyList(st, key) ==
    st[key].kind = "list" /\ ~is_expired(st[key]) /\ st[key].list # <<>>

\* least index of ks whose key holds a non-empty list in st; 0 when none does
LeftmostList(st, ks) ==
    IF \E i \in 1..Len(ks) : NonEmptyList(st, ks[i])
    THEN CHOOSE i \in 1..Len(ks) :
            NonEmptyList(st, ks[i]) /\ \A j \in 1..(i - 1) : ~NonEmptyList(st, ks[j])
    ELSE 0

\* least index of ks whose key holds another kind in st; 0 when none does
LeftmostWrong(st, ks) ==
    IF \E i \in 1..Len(ks) : WrongKind(st, ks[i])
    THEN CHOOSE i \in 1..Len(ks) :
            WrongKind(st, ks[i]) /\ \A j \in 1..(i - 1) : ~WrongKind(st, ks[j])
    ELSE 0

\* least index of ks whose key holds an entry whose expiry has passed
LeftmostStale(st, ks) ==
    IF \E i \in 1..Len(ks) : is_expired(st[ks[i]])
    THEN CHOOSE i \in 1..Len(ks) :
            is_expired(st[ks[i]]) /\ \A j \in 1..(i - 1) : ~is_expired(st[ks[j]])
    ELSE 0

\* some key of ks holds an entry that has not expired
SomeAlive(st, ks) ==
    \E i \in 1..Len(ks) : st[ks[i]].kind # "none" /\ ~is_expired(st[ks[i]])

\* one pass of the type test for key number i of connection c's key vector
CheckKey(c, ks, i, clean) ==
    IF WrongKind(store, ks[i])
    THEN /\ reply' = [reply EXCEPT ![c] = Rep("err", "", <<>>, clean)]
         /\ pc' = [pc EXCEPT ![c] = "done"]
         /\ idx' = idx
    ELSE /\ reply' = reply
         /\ pc' = [pc EXCEPT ![c] = "pop"]
         /\ idx' = [idx EXCEPT ![c] = i]

\* handle_blpop -> Storage::blpop, first critical section
BlpopCall(c, args, t) ==
    /\ New(c)
    /\ nconn' = c
    /\ LET ks == KeyVector(args)
           f == LeftmostList(store, ks) IN
        /\ op' = [op EXCEPT ![c] =
              [NoOp EXCEPT !.cmd = "BLPOP", !.keys = ks, !.t = t,
                           !.solo = Solo(c), !.at = now,
                           !.stale = LeftmostStale(store, ks),
                           !.was = IF LeftmostStale(store, ks) = 0 THEN Absent
                                   ELSE store[ks[LeftmostStale(store, ks)]],
                           !.alive = SomeAlive(store, ks),
                           !.first = f,
                           !.head = IF f = 0 THEN 0
                                    ELSE Head(store[ks[f]].list),
                           !.wrong = LeftmostWrong(store, ks)]]
        /\ CheckKey(c, ks, 1, Solo(c))
    /\ UNCHANGED <<store, waiters, chan, held, nelem, now, codec, mutex>>

\* Storage::blpop, the type test of a later key
BlpopCheck(c) ==
    /\ pc[c] = "check"
    /\ CheckKey(c, op[c].keys, idx[c], Clean(c))
    /\ UNCHANGED <<store, waiters, chan, op, held, nconn, nelem, now, codec, mutex>>

\* Storage::blpop, `self.lpop(key)?` of the loop body
BlpopPop(c) ==
    /\ pc[c] = "pop"
    /\ LET k == op[c].keys[idx[c]]
           r == lpop(store, k) IN
        /\ store' = r.store
        /\ IF r.res.tag = "some"
           THEN /\ reply' = [reply EXCEPT ![c] =
                       Rep("pair", k, r.res.vals, Clean(c))]
                /\ pc' = [pc EXCEPT ![c] = "done"]
                /\ idx' = idx
           ELSE IF r.res.tag = "err"
           THEN /\ reply' = [reply EXCEPT ![c] = Rep("err", "", <<>>, Clean(c))]
                /\ pc' = [pc EXCEPT ![c] = "done"]
                /\ idx' = idx
           ELSE IF idx[c] < Len(op[c].keys)
           THEN /\ reply' = reply
                /\ pc' = [pc EXCEPT ![c] = "check"]
                /\ idx' = [idx EXCEPT ![c] = @ + 1]
           ELSE /\ reply' = reply
                /\ pc' = [pc EXCEPT ![c] = "enqueue"]
                /\ idx' = idx
    /\ UNCHANGED <<waiters, chan, op, held, nconn, nelem, now, codec, mutex>>

NumChans == Cardinality({d \in Conns : chan[d].st # "none"})

\* Storage::blpop: mpsc::channel(), waiters.push_back(waiter); then either
\* the thread parks in recv / recv_timeout, or Duration::from_secs_f64
\* panics on the negative value and the worker thread ends
BlpopEnqueue(c) ==
    /\ pc[c] = "enqueue"
    /\ waiters' = Append(waiters, [id |-> c, keys |-> op[c].keys])
    /\ chan' = [chan EXCEPT ![c] = [NoChan EXCEPT !.st = "open",
                                                  !.ord = NumChans + 1,
                                                  !.born = nelem]]
    /\ pc' = [pc EXCEPT ![c] = IF op[c].t < 0 THEN "dead" ELSE "parked"]
    /\ UNCHANGED <<store, op, idx, held, reply, nconn, nelem, now, codec, mutex>>

\* rx.recv() / rx.recv_timeout() returns Ok((key, value))
BlpopRecv(c) ==
    /\ pc[c] = "parked"
    /\ chan[c].st = "msg"
    /\ chan' = [chan EXCEPT ![c].st = "recvd"]
    /\ reply' = [reply EXCEPT ![c] =
            Rep("pair", chan[c].key, <<chan[c].val>>, FALSE)]
    /\ pc' = [pc EXCEPT ![c] = "done"]
    /\ UNCHANGED <<store, waiters, op, idx, held, nconn, nelem, now, codec, mutex>>

\* the Sender was dropped with nothing sent: recv returns Err and the worker
\* reaches unreachable!(), recv_timeout returns Err(Disconnected)
BlpopClosed(c) ==
    /\ pc[c] = "parked"
    /\ chan[c].st = "closed"
    /\ pc' = [pc EXCEPT ![c] = IF op[c].t = 0 THEN "dead" ELSE "retain"]
    /\ UNCHANGED <<store, waiters, chan, op, idx, held, reply, nconn, nelem, now, codec, mutex>>

\* the deadline passes with nothing buffered: recv_timeout returns Err(Timeout)
BlpopTimeout(c) ==
    /\ pc[c] = "parked"
    /\ op[c].t > 0
    /\ chan[c].st = "open"
    /\ chan' = [chan EXCEPT ![c].toAt = nelem]
    /\ pc' = [pc EXCEPT ![c] = "retain"]
    /\ UNCHANGED <<store, waiters, op, idx, held, reply, nconn, nelem, now, codec, mutex>>

\* the Err(_) arm: waiters.retain(|w| w.keys != keys), then Ok(None)
BlpopRetain(c) ==
    /\ pc[c] = "retain"
    /\ waiters' = Retain(waiters, op[c].keys)
    /\ chan' = [d \in Conns |->
            IF d \in Dropped(waiters, op[c].keys) /\ chan[d].st = "open"
            THEN [chan[d] EXCEPT !.st = "closed"]
            ELSE chan[d]]
    /\ reply' = [reply EXCEPT ![c] = Rep("nullarr", "", <<>>, FALSE)]
    /\ pc' = [pc EXCEPT ![c] = "done"]
    /\ UNCHANGED <<store, op, idx, held, nconn, nelem, now, codec, mutex>>

---------------------------------------------------------------------------
(* Specifications *)

\* the key arguments a BLPOP carries
KeyArgs == {<<"a">>, <<"a", "b">>}

\* the steps of a command that is under way
Step(c) ==
    \/ Notify(c)
    \/ Deliver(c)
    \/ BlpopCheck(c)
    \/ BlpopPop(c)
    \/ BlpopEnqueue(c)
    \/ BlpopRecv(c)
    \/ BlpopClosed(c)
    \/ BlpopTimeout(c)
    \/ BlpopRetain(c)

\* any command on any key, MaxConns connections
Next ==
    \/ \E c \in 1..MaxConns :
        \/ \E k \in ListKeys : Set(c, k)
        \/ \E k \in ListKeys : Lpop(c, k)
        \/ \E k \in ListKeys : LpopCount(c, k, MaxPush)
        \/ \E k \in ListKeys : Lrange(c, k)
        \/ \E k \in ListKeys : Llen(c, k)
        \/ \E k \in ListKeys, n \in 1..MaxPush : Rpush(c, k, n)
        \/ \E k \in ListKeys, n \in 1..MaxPush : Lpush(c, k, n)
        \/ \E args \in KeyArgs, t \in Timeouts : BlpopCall(c, args, t)
    \/ \E c \in Conns : Step(c)

Spec == Init /\ [][Next]_vars

\* consumers blocking forever on one key and producers of single elements,
\* FifoConns connections
NextFifo ==
    \/ \E c \in 1..FifoConns :
        \/ \E t \in {0, 1} : BlpopCall(c, <<"a">>, t)
        \/ Rpush(c, "a", 1)
    \/ \E c \in Conns : Step(c)

SpecFifo == Init /\ [][NextFifo]_vars

\* every way an element leaves a list, on one key: pushes at either end, LPOP,
\* LPOP count, BLPOP by the fast path and by delivery to a parked waiter
NextPop ==
    \/ \E c \in 1..MaxConns :
        \/ \E n \in 1..MaxPush : Rpush(c, "a", n)
        \/ Lpush(c, "a", MaxPush)
        \/ Lpop(c, "a")
        \/ LpopCount(c, "a", MaxPush)
        \/ \E t \in {0, 1} : BlpopCall(c, <<"a">>, t)
    \/ \E c \in Conns : Step(c)

SpecPop == Init /\ [][NextPop]_vars

\* BLPOP scanning two keys that hold nothing, a String or a list, with a
\* competing LPOP
NextScan ==
    \/ \E c \in 1..MaxConns :
        \/ Set(c, "a")
        \/ \E k \in ListKeys : Rpush(c, k, MaxPush)
        \/ Lpop(c, "b")
        \/ \E t \in {0, 1} : BlpopCall(c, <<"a", "b">>, t)
    \/ \E c \in Conns : Step(c)

SpecScan == Init /\ [][NextScan]_vars

\* a list under the key whose text is the command name, a list under a key
\* the BLPOPs name, and BLPOPs that name only the latter
NextName ==
    \/ \E c \in 1..MaxConns :
        \/ Rpush(c, CmdName, 1)
        \/ Rpush(c, "a", 1)
        \/ \E t \in {0, 1} : BlpopCall(c, <<"a">>, t)
    \/ \E c \in Conns : Step(c)

SpecName == Init /\ [][NextName]_vars

\* The two Mutexes.  `mutex` records, for each, the thread that locked it
\* last and where that thread was; the guard lives until the thread leaves
\* the critical section it locked for, or longer where the code keeps it.

\* the Mutex each critical section locks: Storage.inner for the keyspace
\* part of every command and for self.lpop, Storage.waiters for the queue
Needs(label) ==
    IF label \in {"new", "check", "pop", "deliver"} THEN "inner"
    ELSE IF label \in {"notify", "enqueue", "retain"} THEN "waiters"
    ELSE "none"

\* the variant of rpush and lpush without drop(store): the keyspace guard
\* lives to the end of the function
kept_store(label) == IF label \in {"notify", "deliver"} THEN {"inner"} ELSE {}

\* the variant of blpop that binds the queue guard to a local, which lives
\* across rx.recv()
kept_queue(label) == IF label = "parked" THEN {"waiters"} ELSE {}

\* the guards still alive when a thread has left the section it locked for:
\* none, every guard is dropped (drop(store), the end of the block in
\* notify_waiters, the end of the statement in blpop) before the next lock()
KeptGuards(label) == {}

\* thread c is inside Mutex m
Holds(c, m) ==
    /\ mutex[m].owner = c
    /\ mutex[m].at = pc[c] \/ m \in KeptGuards(pc[c])

\* thread c has locked the Mutex of the section it is about to run
Entered(c) ==
    IF Needs(pc[c]) = "none" THEN TRUE
    ELSE mutex[Needs(pc[c])].owner = c /\ mutex[Needs(pc[c])].at = pc[c]

\* Mutex::lock: blocks while any thread, the caller included, is inside
Lock(c) ==
    /\ pc[c] = "new" => c = nconn + 1
    /\ Needs(pc[c]) # "none"
    /\ ~Entered(c)
    /\ \A d \in Conns : ~Holds(d, Needs(pc[c]))
    /\ mutex' = [mutex EXCEPT ![Needs(pc[c])] = [owner |-> c, at |-> pc[c]]]
    /\ UNCHANGED <<store, waiters, chan, pc, op, idx, held, reply, nconn, nelem,
                   now, codec>>

\* the critical sections, and the steps outside them, of one worker
Section(c) ==
    \/ Entered(c) /\ Rpush(c, "a", 1)
    \/ Entered(c) /\ Lpop(c, "a")
    \/ Entered(c) /\ Set(c, "a")
    \/ Entered(c) /\ \E t \in {0, 1} : BlpopCall(c, <<"a">>, t)
    \/ Entered(c) /\ Notify(c)
    \/ Entered(c) /\ Deliver(c)
    \/ Entered(c) /\ BlpopCheck(c)
    \/ Entered(c) /\ BlpopPop(c)
    \/ Entered(c) /\ BlpopEnqueue(c)
    \/ Entered(c) /\ BlpopRecv(c)
    \/ Entered(c) /\ BlpopClosed(c)
    \/ Entered(c) /\ BlpopTimeout(c)
    \/ Entered(c) /\ BlpopRetain(c)

\* LockConns workers on one key, every lock() a step of its own
NextLocks ==
    \/ \E c \in 1..LockConns : Lock(c)
    \/ \E c \in 1..LockConns : Section(c)

SpecLocks == Init /\ [][NextLocks]_vars

\* every worker is an OS thread of its own (thread::spawn in
\* RedisServer::run): one that can take a step is scheduled in the end, and
\* a recv_timeout whose deadline passes returns
LocksFair ==
    \A c \in 1..LockConns : WF_vars(Lock(c)) /\ WF_vars(Section(c))

SpecLocksFair == SpecLocks /\ LocksFair

\* the option lists a SET carries: one expiry in seconds or milliseconds,
\* both, a zero, and the largest integer
OptLists ==
    { <<Opt("EX", 1)>>, <<Opt("PX", MaxMs)>>,
      <<Opt("EX", 1), Opt("PX", 1)>>,
      <<Opt("EX", 0)>>, <<Opt("EX", I64Max)>> }

\* Strings with and without expiry on one key, read back while time passes
NextExpiry ==
    \/ \E c \in 1..MaxConns :
        \/ Set(c, "a")
        \/ \E opts \in OptLists : SetWith(c, "a", opts)
        \/ Get(c, "a")
        \/ Type(c, "a")
        \/ Exists(c, "a")
        \/ Delete(c, "a")
        \/ Rpush(c, "a", 1)
    \/ \E c \in Conns : Notify(c)
    \/ Tick

SpecExpiry == Init /\ [][NextExpiry]_vars

\* the list commands on a key that holds a String, live or expired, with a
\* BLPOP waiting on it
NextKinds ==
    \/ \E c \in 1..MaxConns :
        \/ Set(c, "a")
        \/ SetWith(c, "a", <<Opt("PX", 1)>>)
        \/ Rpush(c, "a", MaxPush)
        \/ Lpush(c, "a", MaxPush)
        \/ Lrange(c, "a")
        \/ Llen(c, "a")
        \/ Lpop(c, "a")
        \/ LpopCount(c, "a", MaxPush)
        \/ Type(c, "a")
        \/ \E t \in {0, 1} : BlpopCall(c, <<"a">>, t)
    \/ \E c \in Conns : Step(c)
    \/ Tick

SpecKinds == Init /\ [][NextKinds]_vars

\* SET over every prior state of the key: absent, a String with or without
\* a pending deadline, a list
NextSet ==
    \/ \E c \in 1..MaxConns :
        \/ Set(c, "a")
        \/ SetWith(c, "a", <<Opt("PX", MaxMs)>>)
        \/ Rpush(c, "a", 1)
        \/ Get(c, "a")
        \/ Type(c, "a")
    \/ \E c \in Conns : Notify(c)
    \/ Tick

SpecSet == Init /\ [][NextSet]_vars

\* the non-blocking list commands and TYPE on a String that expires
NextLazy ==
    \/ \E c \in 1..MaxConns :
        \/ SetWith(c, "a", <<Opt("PX", 1)>>)
        \/ Rpush(c, "a", MaxPush)
        \/ Lpush(c, "a", MaxPush)
        \/ Lrange(c, "a")
        \/ Llen(c, "a")
        \/ Lpop(c, "a")
        \/ Type(c, "a")
    \/ \E c \in Conns : Notify(c)
    \/ Tick

SpecLazy == Init /\ [][NextLazy]_vars

\* the list commands on a key that a SET may have turned into a String,
\* with or without a deadline still ahead, and BLPOP waiters on it
NextOnString ==
    \/ \E c \in 1..MaxConns :
        \/ Set(c, "a")
        \/ SetWith(c, "a", <<Opt("EX", 1)>>)
        \/ Rpush(c, "a", MaxPush)
        \/ Lpush(c, "a", MaxPush)
        \/ Lrange(c, "a")
        \/ Llen(c, "a")
        \/ Lpop(c, "a")
        \/ LpopCount(c, "a", MaxPush)
        \/ BlpopCall(c, <<"a">>, 1)
    \/ \E c \in Conns : Step(c)

SpecOnString == Init /\ [][NextOnString]_vars

\* the indexes a LRANGE carries: from below -len to above len - 1 of the
\* longest list one push builds
Indexes == (0 - MaxPush - 1)..(MaxPush + 1)

\* LRANGE with every pair of indexes over lists of every length
NextRange ==
    \/ \E c \in 1..RangeConns :
        \/ \E n \in 1..MaxPush : Rpush(c, "a", n)
        \/ \E start, end \in Indexes : LrangeAt(c, "a", start, end)
    \/ \E c \in Conns : Notify(c)

SpecRange == Init /\ [][NextRange]_vars

\* the counts a LPOP carries: negative, zero, up to past the longest list
Counts == (0 - 1)..(MaxPush + 1)

\* LPOP with a count over lists of every length
NextCount ==
    \/ \E c \in 1..MaxConns :
        \/ \E n \in 1..MaxPush : Rpush(c, "a", n)
        \/ \E count \in Counts : LpopCount(c, "a", count)
    \/ \E c \in Conns : Notify(c)

SpecCount == Init /\ [][NextCount]_vars

\* every command that takes elements out of a list, with TYPE and LLEN
\* looking at the key in between
NextDrain ==
    \/ \E c \in 1..MaxConns :
        \/ Rpush(c, "a", MaxPush)
        \/ Lpush(c, "a", 1)
        \/ Lpop(c, "a")
        \/ LpopCount(c, "a", MaxPush)
        \/ \E t \in {0, 1} : BlpopCall(c, <<"a">>, t)
        \/ Type(c, "a")
        \/ Llen(c, "a")
    \/ \E c \in Conns : Step(c)

SpecDrain == Init /\ [][NextDrain]_vars

\* the ids a stream command carries: 0-0, 0-1, 1-0 and (XADD) "*"
Ids == {EntryId(0, 0), EntryId(0, 1), EntryId(1, 0)}

\* the streams a XREAD names, with one id each
StreamArgs ==
    {<<<<k>>, <<i>>>> : k \in ListKeys, i \in Ids}
    \cup {<<<<"a", "b">>, <<i, j>>>> : i, j \in Ids}

\* the stream commands
NextStream ==
    \E c \in 1..MaxConns :
        \/ \E k \in ListKeys, id \in Ids \cup {AutoId}, nargs \in 1..2 :
              Xadd(c, k, id, nargs)
        \/ \E a \in StreamArgs : Xread(c, a[1], a[2])
        \/ \E k \in ListKeys : Type(c, k)

SpecStream == Init /\ [][NextStream]_vars

---------------------------------------------------------------------------
(* The bytes on the wire: what a client sends, what the handlers reply *)

\* format!("{}", n) of an integer
RECURSIVE Dec(_)
Dec(n) ==
    IF n < 0 THEN <<"-">> \o Dec(0 - n)
    ELSE IF n < 10 THEN <<DigitBytes[n + 1]>>
    ELSE Dec(n \div 10) \o <<DigitBytes[(n % 10) + 1]>>

\* String::from_utf8_lossy: every byte that cannot be part of UTF-8 text
\* becomes U+FFFD
RECURSIVE from_utf8_lossy(_)
from_utf8_lossy(bytes) ==
    IF bytes = <<>> THEN <<>>
    ELSE IF Head(bytes) = "XFF"
         THEN Replacement \o from_utf8_lossy(Tail(bytes))
         ELSE <<Head(bytes)>> \o from_utf8_lossy(Tail(bytes))

\* format!("${}\r\n{}\r\n", v.len(), String::from_utf8_lossy(&v)) of
\* handle_get, handle_lpop and format_array
bulk_reply(v) ==
    <<"$">> \o Dec(Len(v)) \o CRLF \o from_utf8_lossy(v) \o CRLF

RECURSIVE Join(_)
\* elements.join("")
Join(parts) ==
    IF parts = <<>> THEN <<>> ELSE Head(parts) \o Join(Tail(parts))

\* format_array
format_array(items) ==
    IF items = <<>> THEN <<"*", "0">> \o CRLF
    ELSE <<"*">> \o Dec(Len(items)) \o CRLF \o
         Join([i \in 1..Len(items) |-> bulk_reply(items[i])])

\* handle_blpop, the reply for Ok(Some((key, value)))
blpop_reply(key, value) ==
    <<"*", "2">> \o CRLF \o
    <<"$">> \o Dec(Len(key)) \o CRLF \o key \o CRLF \o
    <<"$">> \o Dec(Len(value)) \o CRLF \o from_utf8_lossy(value) \o CRLF

\* the encoding of a value as a client writes it
RECURSIVE Encode(_)
Encode(v) ==
    IF v.t = "SimpleString" THEN <<"+">> \o v.s \o CRLF
    ELSE IF v.t = "Error" THEN <<"-">> \o v.s \o CRLF
    ELSE IF v.t = "Integer" THEN <<":">> \o Dec(v.n) \o CRLF
    ELSE IF v.t = "BulkString" THEN
        IF v.some THEN <<"$">> \o Dec(Len(v.s)) \o CRLF \o v.s \o CRLF
        ELSE <<"$", "-", "1">> \o CRLF
    ELSE IF v.some THEN
        <<"*">> \o Dec(Len(v.es)) \o CRLF \o
        Join([i \in 1..Len(v.es) |-> Encode(v.es[i])])
    ELSE <<"*", "-", "1">> \o CRLF

EncodeAll(vs) == Join([i \in 1..Len(vs) |-> Encode(vs[i])])

\* payloads: empty, text, text holding a CRLF, and bytes that are not UTF-8
Payloads == {<<>>, <<"a">>, <<"a", "b">>, CRLF, <<"XFF">>, <<"a", "XFF">>}

\* the elements arrays are built from, and the frames a client sends
Elems == {BulkString(<<"a">>), BulkString(CRLF), Integer(1), NullBulk,
          Array(<<BulkString(<<"b">>)>>)}
Flat == {SimpleString(<<"a", "b">>), SimpleString(<<>>), Error(<<"b">>),
         Integer(0), Integer(12), Integer(-3),
         NullBulk, NullArray, Array(<<>>)}
         \cup {BulkString(b) : b \in Payloads}
Frames ==
    Flat \cup {Array(es) : es \in UNION {[1..n -> Elems] : n \in 1..MaxArray}}
         \cup {Array(<<Array(<<e>>), e>>) : e \in Elems}

\* byte sequences that are no frame: an unknown type byte, a length that is
\* no number, an empty integer, a payload longer than its header says, a
\* length below -1
Malformed ==
    { <<"a">> \o CRLF,
      <<"$", "a">> \o CRLF,
      <<":">> \o CRLF,
      <<"$", "1">> \o CRLF \o <<"a", "b">> \o CRLF,
      <<"*", "1">> \o CRLF \o <<"$", "-", "2">> \o CRLF,
      <<"+", "a">> \o CRLF \o <<"b">> \o CRLF }

\* frames whose length or count is written in another way than digits or -1:
\* a plus sign, a minus zero, no text, letters, a value below -1
OddLengths ==
    { <<"$", "+", "1">> \o CRLF \o <<"a">> \o CRLF,
      <<"$", "-", "0">> \o CRLF \o CRLF,
      <<"$">> \o CRLF \o CRLF,
      <<"$", "a", "b">> \o CRLF \o <<"a">> \o CRLF,
      <<"$", "-", "2">> \o CRLF,
      <<"*", "+", "1">> \o CRLF \o <<":", "1">> \o CRLF,
      <<"*", "-", "0">> \o CRLF,
      <<"*">> \o CRLF,
      <<"*", "a", "b">> \o CRLF,
      <<"*", "-", "2">> \o CRLF }

\* who writes the bytes, and the values written: a client one or two frames,
\* handle_get and handle_lpop one bulk string, handle_lrange an array of bulk
\* strings, handle_blpop a key and an element; "raw" writes no value
Origins == {"client", "get", "lrange", "blpop", "raw"}
FramesOf(o) ==
    IF o = "client" THEN {<<f>> : f \in Frames} \cup (Frames \X Flat)
    ELSE IF o = "get" THEN {<<BulkString(b)>> : b \in Payloads}
    ELSE IF o = "lrange" THEN
        {<<Array([i \in 1..Len(s) |-> BulkString(s[i])])>> :
            s \in UNION {[1..m -> {<<"a">>, <<"XFF">>}] : m \in 0..MaxArray}}
    ELSE IF o = "blpop" THEN
        {<<Array(<<BulkString(<<"a">>), BulkString(b)>>)>> : b \in Payloads}
    ELSE {<<>>}

storage == <<store, waiters, chan, pc, op, idx, held, reply, nconn, nelem, now,
             mutex>>

\* a client starts with no byte sent and nothing in the parser
InitCodec ==
    /\ store = [k \in Keys |-> Absent]
    /\ waiters = <<>>
    /\ chan = [c \in Conns |-> NoChan]
    /\ pc = [c \in Conns |-> "new"]
    /\ op = [c \in Conns |-> NoOp]
    /\ idx = [c \in Conns |-> 0]
    /\ held = [c \in Conns |-> 0]
    /\ reply = [c \in Conns |-> NoReply]
    /\ nconn = 0
    /\ nelem = 0
    /\ now = Start
    /\ byte_buffer = <<>>
    /\ result = NoResult
    /\ stage = "start"
    /\ wire = <<>>
    /\ origin \in Origins
    /\ frames \in FramesOf(origin)
    /\ fed = <<>>
    /\ taken = 0
    /\ decoded = <<>>
    /\ split = FALSE
    /\ out = <<>>
    /\ mutex = Unlocked

Written(bytes) ==
    /\ stage = "start"
    /\ wire' = bytes
    /\ stage' = "idle"
    /\ UNCHANGED <<byte_buffer, result, frames, origin, fed, taken, decoded>>
    /\ UNCHANGED <<split, out, storage>>

\* a client writes its frames
ClientWrite == origin = "client" /\ Written(EncodeAll(frames))

\* a client writes bytes that are no frame
RawWrite ==
    origin = "raw" /\ \E bytes \in Malformed \cup OddLengths : Written(bytes)

\* handle_get / handle_lpop write Some(v)
GetReply == origin = "get" /\ Written(bulk_reply(frames[1].s))

\* handle_lrange writes Ok(items)
LrangeReply ==
    /\ origin = "lrange"
    /\ Written(format_array([i \in 1..Len(frames[1].es) |-> frames[1].es[i].s]))

\* handle_blpop writes Ok(Some((key, value)))
BlpopReply ==
    /\ origin = "blpop"
    /\ Written(blpop_reply(frames[1].es[1].s, frames[1].es[2].s))

\* handle_connection: stream.read returns n bytes, parser.feed(&buffer[..n])
Read ==
    /\ stage = "idle"
    /\ \E n \in 1..Len(wire) :
        /\ byte_buffer' = feed(byte_buffer, SubSeq(wire, 1, n))
        /\ fed' = fed \o SubSeq(wire, 1, n)
        /\ wire' = SubSeq(wire, n + 1, Len(wire))
    /\ stage' = "fed"
    /\ UNCHANGED <<result, frames, origin, taken, decoded>>
    /\ UNCHANGED <<split, out, storage>>

\* handle_connection: parser.parse()
Parse ==
    /\ stage = "fed"
    /\ result' = parse(byte_buffer)
    /\ stage' = "parsed"
    /\ UNCHANGED <<byte_buffer, wire, frames, origin, fed, taken, decoded>>
    /\ UNCHANGED <<split, out, storage>>

\* handle_connection, ParseResult::Complete: the value goes to
\* handle_command, then parser.consume(consumed) and the loop parses again
Consume ==
    /\ stage = "parsed"
    /\ result.tag = "Complete"
    /\ byte_buffer' = consume(byte_buffer, result.n)
    /\ decoded' = Append(decoded, result.value)
    /\ taken' = taken + result.n
    /\ stage' = "fed"
    /\ UNCHANGED <<result, wire, frames, origin, fed>>
    /\ UNCHANGED <<split, out, storage>>

\* handle_connection, ParseResult::Incomplete: back to stream.read
Wait ==
    /\ stage = "parsed"
    /\ result.tag = "Incomplete"
    /\ stage' = "idle"
    /\ split' = (split \/ byte_buffer # <<>>)
    /\ UNCHANGED <<byte_buffer, result, wire, frames, origin, fed, taken,
                   decoded>>
    /\ UNCHANGED <<out, storage>>

\* handle_connection, ParseResult::Error: write_all(e), then the worker
\* returns
Fail ==
    /\ stage = "parsed"
    /\ result.tag = "Error"
    /\ out' = Append(out, ErrorText)
    /\ stage' = "closed"
    /\ UNCHANGED <<byte_buffer, result, wire, frames, origin, fed, taken,
                   decoded>>
    /\ UNCHANGED <<split, storage>>

\* the decoder fed by a client's frames and by the server's own replies
NextCodec ==
    \/ ClientWrite
    \/ RawWrite
    \/ GetReply
    \/ LrangeReply
    \/ BlpopReply
    \/ Read
    \/ Parse
    \/ Consume
    \/ Wait
    \/ Fail

SpecCodec == InitCodec /\ [][NextCodec]_vars

---------------------------------------------------------------------------
(* One connection: handle_connection with handle_command.  The replies are *)
(* sequences of bytes in which the fixed wording of a message is one item. *)

\* char::to_uppercase, on the letters a client below sends in lower case
Upper(b) ==
    IF b = "a" THEN "A" ELSE IF b = "b" THEN "B" ELSE IF b = "e" THEN "E"
    ELSE IF b = "g" THEN "G" ELSE IF b = "t" THEN "T" ELSE b

\* str::to_uppercase
to_uppercase(bytes) == [i \in 1..Len(bytes) |-> Upper(bytes[i])]

\* extract_command_name
extract_command_name(value) ==
    IF value.t = "BulkString" /\ value.some
    THEN to_uppercase(from_utf8_lossy(value.s))
    ELSE IF value.t = "SimpleString" THEN to_uppercase(value.s)
    ELSE <<>>

\* extract_key
extract_key(key_candidate) ==
    IF key_candidate.t = "BulkString" /\ key_candidate.some
    THEN from_utf8_lossy(key_candidate.s)
    ELSE IF key_candidate.t = "SimpleString" THEN key_candidate.s
    ELSE <<"-ERR Invalid key type">> \o CRLF

\* extract_integer_from_resp_value
extract_integer_from_resp_value(value) ==
    IF value.t = "Integer" THEN [ok |-> TRUE, n |-> value.n]
    ELSE IF value.t = "BulkString" /\ value.some
    THEN parse_i64(from_utf8_lossy(value.s))
    ELSE IF value.t = "SimpleString" THEN parse_i64(value.s)
    ELSE [ok |-> FALSE, n |-> 0]

\* what a handler hands back: the keyspace after it, the String it returns,
\* and whether it unwound the worker instead of returning
Returned(st, text) == [store |-> st, reply |-> text, panic |-> FALSE]
Unwound(st) == [store |-> st, reply |-> <<>>, panic |-> TRUE]

\* BulkString(Some(v)) and SimpleString(v), the two forms a value may take
IsText(value) ==
    (value.t = "BulkString" /\ value.some) \/ value.t = "SimpleString"

\* handle_ping
handle_ping(elements, st) == Returned(st, <<"+PONG">> \o CRLF)

\* handle_get
handle_get(elements, st) ==
    IF Len(elements) < 2
    THEN Returned(st, <<"-ERR wrong number of arguments for 'GET' command">>
                      \o CRLF)
    ELSE LET r == get(st, extract_key(elements[2])) IN
         IF r.res.tag = "some"
         THEN Returned(r.store, bulk_reply(r.res.vals[1]))
         ELSE Returned(r.store, <<"$", "-", "1">> \o CRLF)

\* handle_set, the `while i < elements.len()` loop (i counts from 0)
RECURSIVE set_options(_, _, _)
set_options(elements, i, expiration) ==
    IF i >= Len(elements)
    THEN [ok |-> TRUE, expiration |-> expiration, reply |-> <<>>]
    ELSE LET option == extract_command_name(elements[i + 1]) IN
         IF option \in {<<"E", "X">>, <<"P", "X">>}
         THEN IF i + 1 >= Len(elements)
              THEN [ok |-> FALSE, expiration |-> expiration,
                    reply |-> <<"-ERR syntax error">> \o CRLF]
              ELSE LET s == extract_integer_from_resp_value(elements[i + 2]) IN
                   IF s.ok /\ s.n > 0
                   THEN set_options(elements, i + 2,
                                    Expiration(s.n, option = <<"P", "X">>))
                   ELSE [ok |-> FALSE, expiration |-> expiration,
                         reply |-> <<"-ERR invalid expire time in 'SET' command">>
                                   \o CRLF]
         ELSE [ok |-> FALSE, expiration |-> expiration,
               reply |-> <<"-ERR syntax error, unexpected option '">> \o option
                         \o <<"'. Only 'EX' or 'PX' are allowed">>]

\* handle_set
handle_set(elements, st) ==
    IF Len(elements) < 3
    THEN Returned(st, <<"-ERR wrong number of arguments for 'SET' command">>
                      \o CRLF)
    ELSE IF ~IsText(elements[3])
    THEN Returned(st, <<"-ERR Invalid value type">> \o CRLF)
    ELSE LET key == extract_key(elements[2])
             value == elements[3].s
             o == set_options(elements, 3, NoExpiration) IN
         IF ~o.ok THEN Returned(st, o.reply)
         ELSE IF ~o.expiration.some
         THEN Returned(set(st, key, value), <<"+OK">> \o CRLF)
         ELSE IF o.expiration.px
         THEN Returned(set_px(st, key, value, o.expiration.n), <<"+OK">> \o CRLF)
         ELSE IF AddOverflows(o.expiration.n) THEN Unwound(st)
         ELSE Returned(set_ex(st, key, value, o.expiration.n), <<"+OK">> \o CRLF)

WrongTypeText ==
    <<"WRONGTYPE Operation against a key holding the wrong kind of value">>

\* handle_rpush: handle_list_push with Storage::rpush; on a server with one
\* connection the waiter queue is empty and notify_waiters finds nothing
handle_rpush(elements, st) ==
    IF Len(elements) < 3
    THEN Returned(st, <<"-ERR wrong number of arguments for command">> \o CRLF)
    ELSE IF \E i \in 3..Len(elements) : ~IsText(elements[i])
    THEN Returned(st, <<"-ERR Invalid key type">> \o CRLF)
    ELSE LET r == rpush_store(st, extract_key(elements[2]),
                              [i \in 1..(Len(elements) - 2) |-> elements[i + 2].s])
         IN IF r.res.tag = "some"
            THEN Returned(r.store, <<":">> \o Dec(r.res.vals[1]) \o CRLF)
            ELSE Returned(r.store, <<"-">> \o WrongTypeText \o CRLF)

\* handle_llen
handle_llen(elements, st) ==
    IF Len(elements) # 2
    THEN Returned(st, <<"-ERR wrong number of arguments for command">> \o CRLF)
    ELSE LET r == llen(st, extract_key(elements[2])) IN
         IF r.res.tag = "some"
         THEN Returned(r.store, <<":">> \o Dec(r.res.vals[1]) \o CRLF)
         ELSE Returned(r.store, <<"-">> \o WrongTypeText \o CRLF)

\* handle_xadd: the argument checks, then Storage::xadd
handle_xadd(elements, st) ==
    IF Len(elements) < 5 \/ (Len(elements) - 3) % 2 # 0
    THEN Returned(st, <<"-ERR wrong number of arguments for command">> \o CRLF)
    ELSE IF ~IsText(elements[3])
    THEN Returned(st, <<"-ERR Invalid stream ID specified as stream command argument">>
                      \o CRLF)
    ELSE IF \E i \in 4..Len(elements) : ~IsText(elements[i])
    THEN Returned(st, <<"-ERR Invalid key type">> \o CRLF)
    ELSE LET r == xadd(st, extract_key(elements[2]), elements[3].s) IN
         IF r.res.tag = "panic" THEN Unwound(r.store)
         ELSE Returned(r.store, <<"-">> \o CRLF)

\* handle_command, with the arms of the commands sent below (the other
\* commands are the actions of the sections above)
handle_command(value, st) ==
    IF value.t = "Array" /\ value.some /\ value.es # <<>>
    THEN LET elements == value.es
             command == extract_command_name(elements[1]) IN
         IF command = <<"P", "I", "N", "G">> THEN handle_ping(elements, st)
         ELSE IF command = <<"S", "E", "T">> THEN handle_set(elements, st)
         ELSE IF command = <<"G", "E", "T">> THEN handle_get(elements, st)
         ELSE IF command = <<"R", "P", "U", "S", "H">>
         THEN handle_rpush(elements, st)
         ELSE IF command = <<"L", "L", "E", "N">> THEN handle_llen(elements, st)
         ELSE IF command = <<"X", "A", "D", "D">> THEN handle_xadd(elements, st)
         ELSE Returned(st, <<"-ERR unknown command: '">> \o command
                           \o <<"'">> \o CRLF)
    ELSE Returned(st, <<"-ERR Invalid command format ">> \o CRLF)

\* a command as a client writes it: an array of bulk strings
Cmd(words) == Array([i \in 1..Len(words) |-> BulkString(words[i])])

\* bytes that are no frame, and the entry that stands for them in `frames`
Garbage == RespVal("Garbage", FALSE, <<":", "a">> \o CRLF, 0, <<>>)

RpushAB == Cmd(<<<<"R", "P", "U", "S", "H">>, <<"a">>, <<"b">>>>)
SetAB == Cmd(<<<<"S", "E", "T">>, <<"a">>, <<"b">>>>)
GetNoKey == Cmd(<<<<"g", "e", "t">>>>)
SetOdd == Cmd(<<<<"S", "E", "T">>, <<"a">>, <<"b">>, <<"a">>>>)
Nonsense == Cmd(<<<<"a">>>>)
XaddAB == Cmd(<<<<"X", "A", "D", "D">>, <<"a">>, <<"*">>, <<"a">>, <<"b">>>>)

\* what one client sends: a push, a GET without its key, a SET with an
\* option that does not exist, a command that does not exist, an XADD,
\* garbage; before them, or not, a SET that turns the key of the push into
\* a String (the push is then a WrongType)
SessionFrames == {RpushAB, GetNoKey, SetOdd, Nonsense, XaddAB, Garbage}
Sessions ==
    {pre \o s : pre \in {<<>>, <<SetAB>>},
                s \in UNION {[1..n -> SessionFrames] : n \in 1..MaxCmds}}

\* the keys of the keyspace, as extract_key renders them
SessionKeys == {<<"a">>}

Sent(f) == IF f.t = "Garbage" THEN f.s ELSE Encode(f)

\* a server with one connection, nothing sent yet
InitSession ==
    /\ store = [k \in SessionKeys |-> Absent]
    /\ waiters = <<>>
    /\ chan = [c \in Conns |-> NoChan]
    /\ pc = [c \in Conns |-> "new"]
    /\ op = [c \in Conns |-> NoOp]
    /\ idx = [c \in Conns |-> 0]
    /\ held = [c \in Conns |-> 0]
    /\ reply = [c \in Conns |-> NoReply]
    /\ nconn = 0
    /\ nelem = 0
    /\ now = Start
    /\ byte_buffer = <<>>
    /\ result = NoResult
    /\ stage = "start"
    /\ wire = <<>>
    /\ origin = "session"
    /\ frames \in Sessions
    /\ fed = <<>>
    /\ taken = 0
    /\ decoded = <<>>
    /\ split = FALSE
    /\ out = <<>>
    /\ mutex = Unlocked

\* the client writes its commands one after the other
SessionWrite ==
    /\ origin = "session"
    /\ Written(Join([i \in 1..Len(frames) |-> Sent(frames[i])]))

\* handle_connection, ParseResult::Complete: handle_command(&value,
\* &storage), write_all(response), parser.consume(consumed), parse again
Execute ==
    /\ stage = "parsed"
    /\ result.tag = "Complete"
    /\ LET r == handle_command(result.value, store) IN
        /\ store' = r.store
        /\ IF r.panic
           THEN /\ stage' = "closed"
                /\ UNCHANGED <<byte_buffer, decoded, taken, out>>
           ELSE /\ out' = Append(out, r.reply)
                /\ byte_buffer' = consume(byte_buffer, result.n)
                /\ decoded' = Append(decoded, result.value)
                /\ taken' = taken + result.n
                /\ stage' = "fed"
    /\ UNCHANGED <<result, wire, frames, origin, fed, split>>
    /\ UNCHANGED <<waiters, chan, pc, op, idx, held, reply, nconn, nelem, now,
                   mutex>>

NextSession ==
    \/ SessionWrite
    \/ Read
    \/ Parse
    \/ Execute
    \/ Wait
    \/ Fail

SpecSession == InitSession /\ [][NextSession]_vars

---------------------------------------------------------------------------
(* Vocabulary of the properties *)

Blpop(c) == op[c].cmd = "BLPOP"
Done(c) == pc[c] = "done"
Delivered(w) == chan[w].st \in {"msg", "recvd"}
InSeq(s, e) == \E i \in 1..Len(s) : s[i] = e

\* e was pushed by an RPUSH
Rpushed(e) == \E p \in Conns : op[p].cmd = "RPUSH" /\ InSeq(op[p].vals, e)

\* connections whose reply hands the element e to the client (LPOP, LPOP
\* count, BLPOP by either path)
TakenBy(e) ==
    {c \in Conns : /\ reply[c].tag \in {"bulk", "pair", "array"}
                   /\ op[c].cmd \in {"LPOP", "LPOPN", "BLPOP"}
                   /\ InSeq(reply[c].vals, e)}

\* channels in which e is buffered and not yet received
BufferedIn(e) == {w \in Conns : chan[w].st = "msg" /\ chan[w].val = e}

\* places of the keyspace that hold e
StoredAt(e) ==
    {<<k, i>> \in Keys \X (1..nelem) :
        i <= Len(store[k].list) /\ store[k].list[i] = e}

---------------------------------------------------------------------------
(* C1..C10 *)

\* C1: n waiters parked on K (list absent), one RPUSH of m elements and no
\* other command in progress: when the RPUSH has returned, waiter i holds
\* element i for every i <= min(n, m), and none of those elements is left in
\* the list.
C1_MultiPushServesWaiters ==
    \A p \in Conns :
        ( /\ Done(p) /\ op[p].cmd = "RPUSH" /\ reply[p].tag = "int"
          /\ reply[p].clean
          /\ op[p].len0 = 0 /\ op[p].wsp
          /\ \A i \in 1..Len(op[p].ws) : op[op[p].ws[i]].t = 0 )
        => \A i \in 1..MinOf(Len(op[p].ws), Len(op[p].vals)) :
              /\ Delivered(op[p].ws[i])
              /\ chan[op[p].ws[i]].key = op[p].key
              /\ chan[op[p].ws[i]].val = op[p].vals[i]
              /\ StoredAt(op[p].vals[i]) = {}

\* C2: two waiters that never time out, both enqueued on K before either of
\* two RPUSHed elements entered the list: the waiter enqueued first is
\* delivered the element that entered first.
C2_FifoAcrossProducers ==
    \A w1, w2 \in Conns :
        ( /\ Blpop(w1) /\ Blpop(w2)
          /\ Delivered(w1) /\ Delivered(w2)
          /\ chan[w1].toAt = -1 /\ chan[w2].toAt = -1
          /\ chan[w1].ord < chan[w2].ord
          /\ chan[w1].key = chan[w2].key
          /\ Rpushed(chan[w1].val) /\ Rpushed(chan[w2].val)
          /\ chan[w1].val > chan[w2].born /\ chan[w2].val > chan[w2].born )
        => chan[w1].val < chan[w2].val

\* C3: an element pushed after a waiter's wait ended by timeout is never
\* sent into that waiter's channel (where nobody receives it and it is gone
\* from the list).
C3_PushAfterTimeoutStays ==
    \A w \in Conns :
        (chan[w].toAt >= 0 /\ chan[w].st = "msg") => chan[w].val <= chan[w].toAt

\* C4: every pushed element instance is in at most one place: at one index
\* of one list, or buffered for one waiter, or in the reply of one caller.
C4_HandedOutAtMostOnce ==
    \A e \in 1..nelem :
        Cardinality(StoredAt(e)) + Cardinality(BufferedIn(e))
            + Cardinality(TakenBy(e)) <= 1

C4_Witness ==
    \E w, c \in Conns, e1, e2 \in 1..nelem :
        /\ e1 # e2
        /\ chan[w].st = "recvd" /\ TakenBy(e1) = {w}
        /\ op[c].cmd = "LPOP" /\ TakenBy(e2) = {c}

\* C5: the first element of an RPUSH to an absent list on which a waiter is
\* parked is seen by, and handed to, nobody but that waiter.
C5_PushedToWaiterNeverObservable ==
    \A p, c \in Conns :
        ( /\ op[p].cmd = "RPUSH" /\ op[p].ret > 0
          /\ op[p].len0 = 0 /\ op[p].ws # <<>> /\ op[p].wsp
          /\ c # op[p].ws[1] )
        => ~InSeq(reply[c].vals, op[p].vals[1])

\* C6: a BLPOP with timeout 0 that has parked never finds its channel closed:
\* its worker never reaches unreachable!() and it never returns null-array.
C6_ForeverWaiterOnlyDelivered ==
    \A c \in Conns :
        (Blpop(c) /\ op[c].t = 0 /\ chan[c].st # "none")
        => /\ chan[c].st # "closed"
           /\ pc[c] # "dead"
           /\ reply[c].tag \in {"none", "pair"}

\* C7: a BLPOP with timeout t > 0 that parked and returned null-array did so
\* after its own deadline had passed.
C7_NullOnlyAfterDeadline ==
    \A c \in Conns :
        (Blpop(c) /\ op[c].t > 0 /\ Done(c) /\ reply[c].tag = "nullarr")
        => chan[c].toAt >= 0

HeadRemoved(st, k) ==
    [st EXCEPT ![k] = IF Tail(st[k].list) = <<>> THEN Absent
                      ELSE ListVal(Tail(st[k].list))]

\* no key of another kind stands left of the leftmost non-empty list
ListComesFirst(c) ==
    op[c].first # 0 /\ (op[c].wrong = 0 \/ op[c].wrong > op[c].first)

\* C8 (amended), what holds while no other command runs: with no key of
\* another kind left of the leftmost non-empty list, BLPOP neither parks nor
\* fails, and returns the head of that list under that key.
C8_SoloReturnsLeftmost ==
    \A c \in Conns :
        (Blpop(c) /\ ListComesFirst(c))
        => /\ (Done(c) /\ reply[c].clean) =>
                  /\ reply[c].tag = "pair"
                  /\ reply[c].key = op[c].keys[op[c].first]
                  /\ reply[c].vals = <<op[c].head>>
           /\ Clean(c) => pc[c] \in {"pop", "check", "done"} /\ chan[c].st = "none"

\* C8 (amended), what holds in every interleaving: the step in which the
\* scan pops a key that holds a non-empty list returns [key, head], removes
\* exactly that element and leaves the waiter queue and all channels alone.
C8_PopStep ==
    \A c \in Conns :
        ( /\ pc[c] = "pop" /\ pc'[c] # "pop"
          /\ NonEmptyList(store, op[c].keys[idx[c]]) )
        => LET k == op[c].keys[idx[c]] IN
            /\ pc'[c] = "done"
            /\ reply'[c].tag = "pair"
            /\ reply'[c].key = k
            /\ reply'[c].vals = <<Head(store[k].list)>>
            /\ store' = HeadRemoved(store, k)
            /\ waiters' = waiters
            /\ chan' = chan

C9_WrongTypeAnyPosition ==
    \A c \in Conns :
        (Blpop(c) /\ op[c].wrong # 0 /\ op[c].t >= 0)
        => /\ (Done(c) /\ reply[c].clean) => reply[c].tag = "err"
           /\ Clean(c) => chan[c].st = "none"

\* C10: a BLPOP with a negative timeout gets an error reply; it enqueues no
\* waiter, pops nothing, and its worker thread stays alive.
C10_NegativeTimeoutRejected ==
    \A c \in Conns :
        (Blpop(c) /\ op[c].t < 0)
        => /\ pc[c] # "dead"
           /\ chan[c].st = "none"
           /\ Done(c) => reply[c].tag = "err"

---------------------------------------------------------------------------
(* C11..C20 *)

\* the command of connection j writes key k
WritesKey(j, k) ==
    op[j].key = k /\ op[j].cmd \in {"SET", "RPUSH", "LPUSH", "DEL"}

\* s is the last command before g that wrote the key of g
LatestWrite(s, g) ==
    /\ s < g /\ g <= nconn
    /\ op[s].key = op[g].key
    /\ \A j \in (s + 1)..(g - 1) : ~WritesKey(j, op[g].key)

\* connection s sent SET k v EX n or SET k v PX n with n > 0
ExpirySet(s) ==
    /\ op[s].cmd = "SET" /\ Len(op[s].opts) = 1
    /\ op[s].opts[1].name \in {"EX", "PX"} /\ op[s].opts[1].n > 0

\* milliseconds between the commands of s and g
Elapsed(s, g) == op[g].at - op[s].at

\* g ran before, or after, the deadline the SET of s asked for (seconds are
\* compared without forming n * MsPerSec)
BeforeDeadline(s, g) ==
    LET o == op[s].opts[1] IN
    IF o.name = "PX" THEN Elapsed(s, g) < o.n
    ELSE Elapsed(s, g) \div MsPerSec < o.n

AfterDeadline(s, g) ==
    LET o == op[s].opts[1]
        e == Elapsed(s, g) IN
    IF o.name = "PX" THEN e > o.n
    ELSE \/ e \div MsPerSec > o.n
         \/ e \div MsPerSec = o.n /\ e % MsPerSec > 0

\* C11: after SET k v EX n or PX n (n > 0) and until k is written again, a
\* GET k before the deadline returns v and a GET k after it returns null-bulk.
C11_ExpiryWindow ==
    \A s, g \in Conns :
        (ExpirySet(s) /\ op[g].cmd = "GET" /\ Done(g) /\ LatestWrite(s, g))
        => /\ BeforeDeadline(s, g) =>
                reply[g].tag = "bulk" /\ reply[g].vals = <<s>>
           /\ AfterDeadline(s, g) => reply[g].tag = "nil"

\* the deadline of entry v has been reached when the clock reads t
Lapsed(v, t) == v.exp # NoExpiry /\ t >= v.exp

\* the command of c found a String whose expiry had passed under its key
OnExpiredString(c) ==
    op[c].was.kind = "string" /\ Lapsed(op[c].was, op[c].at)

\* C12, the replies: on a String whose expiry has passed RPUSH / LPUSH return
\* the number of pushed values, LRANGE the empty array, LLEN 0, LPOP null and
\* TYPE none; none of them fails.
C12_Replies ==
    \A c \in Conns :
        OnExpiredString(c) =>
            /\ op[c].cmd \in {"RPUSH", "LPUSH"} =>
                  /\ pc[c] \in {"notify", "deliver", "done"}
                  /\ op[c].ret = Len(op[c].vals)
                  /\ Done(c) => reply[c].tag = "int"
                                 /\ reply[c].vals = <<Len(op[c].vals)>>
            /\ op[c].cmd = "LRANGE" =>
                  reply[c].tag = "array" /\ reply[c].vals = <<>>
            /\ op[c].cmd = "LLEN" =>
                  reply[c].tag = "int" /\ reply[c].vals = <<0>>
            /\ op[c].cmd \in {"LPOP", "LPOPN"} => reply[c].tag = "nil"
            /\ op[c].cmd = "TYPE" =>
                  reply[c].tag = "type" /\ reply[c].key = "none"

\* C12, the keyspace: the push that finds the expired String leaves a list of
\* exactly the pushed values, without expiry, under the key.
C12_PushStep ==
    \A c \in Conns :
        ( /\ pc[c] = "new" /\ pc'[c] # "new"
          /\ op'[c].cmd \in {"RPUSH", "LPUSH"}
          /\ store[op'[c].key].kind = "string"
          /\ Lapsed(store[op'[c].key], now) )
        => LET v == store'[op'[c].key] IN
            /\ v.kind = "list" /\ v.exp = NoExpiry
            /\ Len(v.list) = Len(op'[c].vals)
            /\ \A i \in 1..Len(v.list) : InSeq(op'[c].vals, v.list[i])
            /\ op'[c].cmd = "RPUSH" => v.list = op'[c].vals

\* C12: a String whose expiry has passed is an absent key for RPUSH, LPUSH,
\* LRANGE, LLEN, LPOP and TYPE: pushes create a fresh list without expiry and
\* return the number of pushed values, reads answer as on an absent key, and
\* none returns WrongType.
C12_ExpiredStringAbsent == [](C12_Replies) /\ [][C12_PushStep]_vars

C12_Witness ==
    \E c, d \in Conns :
        /\ OnExpiredString(c) /\ op[c].cmd = "RPUSH" /\ Done(c)
        /\ reply[c].vals = <<MaxPush>>
        /\ op[d].cmd = "SET" /\ d < c /\ op[c].was.str = d

\* C13: a BLPOP that runs alone and finds, under its keys, a String whose
\* expiry has passed and nothing that is still alive does not answer
\* WrongType: it waits.
C13_BlpopOnExpiredString ==
    \A c \in Conns :
        ( /\ Blpop(c) /\ op[c].t >= 0
          /\ op[c].stale # 0 /\ ~op[c].alive
          /\ op[c].was.kind = "string" /\ op[c].at > op[c].was.exp )
        => /\ (Done(c) /\ reply[c].clean) => reply[c].tag # "err"
           /\ (Clean(c) /\ Done(c)) => chan[c].st # "none"

\* C14: EXISTS and DEL on a key whose deadline has passed both answer false,
\* whether or not a command has observed the expiry before.
C14_ExpiredNotPresent ==
    \A s, c \in Conns :
        ( /\ ExpirySet(s) /\ Done(s) /\ LatestWrite(s, c)
          /\ op[c].cmd \in {"EXISTS", "DEL"}
          /\ AfterDeadline(s, c) )
        => reply[c].tag = "false"

\* C15: GET on a key that holds a list answers WRONGTYPE.
C15_GetOnListFails ==
    \A c \in Conns :
        (op[c].cmd = "GET" /\ op[c].was.kind = "list" /\ Done(c))
        => reply[c].tag = "err"

\* the command of c found a String that had not expired under its key
OnLiveString(c) ==
    op[c].was.kind = "string" /\ ~Lapsed(op[c].was, op[c].at)

\* the commands that work on lists without blocking
ListCmds == {"RPUSH", "LPUSH", "LRANGE", "LLEN", "LPOP", "LPOPN"}

\* C16, the reply: the command is finished at once, with the error.
C16_Replies ==
    \A c \in Conns :
        (op[c].cmd \in ListCmds /\ OnLiveString(c))
        => Done(c) /\ reply[c].tag = "err"

\* C16, the step: nothing of the keyspace, the waiter queue or the channels
\* changes, and no waiter is taken out to be served.
C16_FailStep ==
    \A c \in Conns :
        ( /\ pc[c] = "new" /\ pc'[c] # "new"
          /\ op'[c].cmd \in ListCmds
          /\ store[op'[c].key].kind = "string"
          /\ ~Lapsed(store[op'[c].key], now) )
        => /\ store' = store
           /\ waiters' = waiters /\ chan' = chan /\ held' = held
           /\ pc'[c] = "done"

\* C16: RPUSH, LPUSH, LRANGE, LLEN, LPOP and LPOP with a count on a live
\* String return the WRONGTYPE error, leave the whole keyspace as it was and
\* wake no waiter.
C16_WrongTypeOnString == [](C16_Replies) /\ [][C16_FailStep]_vars

C16_Witness ==
    \E c, w \in Conns :
        /\ op[c].cmd = "RPUSH" /\ OnLiveString(c) /\ Done(c)
        /\ w < c /\ Blpop(w) /\ pc[w] = "parked" /\ chan[w].st = "open"
        /\ Position(waiters, op[c].key) # 0
        /\ store[op[c].key].kind = "string"

\* connection c sent SET k v without options
PlainSet(c) == op[c].cmd = "SET" /\ op[c].opts = <<>>

\* C17, the replies: until k is written again, however much time passes,
\* GET k returns v and TYPE k returns string.
C17_Replies ==
    \A c, g \in Conns :
        (PlainSet(c) /\ LatestWrite(c, g) /\ Done(g))
        => /\ Done(c) /\ reply[c].tag = "ok"
           /\ op[g].cmd = "GET" =>
                 reply[g].tag = "bulk" /\ reply[g].vals = <<c>>
           /\ op[g].cmd = "TYPE" =>
                 reply[g].tag = "type" /\ reply[g].key = "string"

\* C17, the step: whatever the key held, it now holds v with no deadline.
C17_SetStep ==
    \A c \in Conns :
        (pc[c] = "new" /\ pc'[c] # "new" /\ PlainSet(c)')
        => store'[op'[c].key] = StrVal(c, NoExpiry)

\* C17: SET k v without options succeeds on every prior state of k (absent,
\* String with or without a deadline, list); GET k then returns v, TYPE k
\* returns string, and k no longer expires.
C17_SetOverwrites == [](C17_Replies) /\ [][C17_SetStep]_vars

C17_Witness ==
    \E c, g \in Conns :
        /\ PlainSet(c) /\ LatestWrite(c, g) /\ Done(g)
        /\ op[c].was.kind = "string" /\ op[c].was.exp > op[c].at
        /\ op[g].cmd = "GET" /\ op[g].at > op[c].was.exp
        /\ reply[g].vals = <<c>>

\* connection c sent a SET that carries an EX and a PX option
BothOptions(c) ==
    /\ op[c].cmd = "SET"
    /\ \E i, j \in 1..Len(op[c].opts) :
          op[c].opts[i].name = "EX" /\ op[c].opts[j].name = "PX"

\* C18: a SET that carries both EX and PX is answered with a syntax error
\* (and so writes nothing).
C18_ExAndPxRejected ==
    \A c \in Conns :
        BothOptions(c) =>
            /\ reply[c].tag = "err" /\ reply[c].key = "syntax error"
            /\ store[op[c].key].str # c

\* the list a push of c found under its key ([] when there was none)
FoundList(c) == op[c].was.kind \in {"list", "none"}

\* C19, the reply: RPUSH answers len(L) + n, whatever waiters take before
\* the reply is sent; when it ran alone and no waiter was queued on k, the
\* list is L ++ [v1..vn] when it returns.
C19_Replies ==
    \A c \in Conns :
        (op[c].cmd = "RPUSH" /\ FoundList(c))
        => /\ op[c].ret = Len(op[c].was.list) + Len(op[c].vals)
           /\ Done(c) => reply[c].tag = "int" /\ reply[c].vals = <<op[c].ret>>
           /\ (Done(c) /\ Clean(c) /\ op[c].ws = <<>>) =>
                 store[op[c].key].list = op[c].was.list \o op[c].vals

\* C19, the step: the append leaves L ++ [v1..vn] under k.
C19_AppendStep ==
    \A c \in Conns :
        ( /\ pc[c] = "new" /\ pc'[c] # "new" /\ op'[c].cmd = "RPUSH"
          /\ store[op'[c].key].kind \in {"list", "none"} )
        => /\ store'[op'[c].key].kind = "list"
           /\ store'[op'[c].key].list = store[op'[c].key].list \o op'[c].vals

\* C19: RPUSH k v1..vn on list L (L = [] when absent) leaves L ++ [v1..vn]
\* and replies len(L) + n, the length right after the append, also when
\* parked waiters consume pushed elements before the reply is sent.
C19_RpushAppends == [](C19_Replies) /\ [][C19_AppendStep]_vars

C19_Witness ==
    \E c, d, w \in Conns :
        /\ op[c].cmd = "RPUSH" /\ op[c].ws # <<>> /\ Done(c)
        /\ Len(op[c].vals) = MaxPush /\ reply[c].vals = <<MaxPush>>
        /\ Delivered(w) /\ InSeq(op[c].vals, chan[w].val)
        /\ op[d].cmd = "RPUSH" /\ op[d].was.list # <<>> /\ Done(d)
        /\ reply[d].vals = <<Len(op[d].was.list) + Len(op[d].vals)>>

RECURSIVE InsertEach(_, _)
\* insert each value, in order, at position 0 of l
InsertEach(values, l) ==
    IF values = <<>> THEN l
    ELSE InsertEach(Tail(values), <<Head(values)>> \o l)

\* C20, the reply: LPUSH answers len(L) + n.
C20_Replies ==
    \A c \in Conns :
        (op[c].cmd = "LPUSH" /\ FoundList(c))
        => /\ op[c].ret = Len(op[c].was.list) + Len(op[c].vals)
           /\ Done(c) => reply[c].tag = "int" /\ reply[c].vals = <<op[c].ret>>

\* C20, the step: the list under k becomes what inserting v1, then v2, ...,
\* then vn at position 0 of L gives, which is [vn, ..., v1] ++ L.
C20_PrependStep ==
    \A c \in Conns :
        ( /\ pc[c] = "new" /\ pc'[c] # "new" /\ op'[c].cmd = "LPUSH"
          /\ store[op'[c].key].kind \in {"list", "none"} )
        => LET L == store[op'[c].key].list
               vs == op'[c].vals
               after == store'[op'[c].key].list IN
            /\ store'[op'[c].key].kind = "list"
            /\ after = InsertEach(vs, L)
            /\ Len(after) = Len(L) + Len(vs)
            /\ \A i \in 1..Len(vs) : after[i] = vs[Len(vs) + 1 - i]
            /\ \A i \in 1..Len(L) : after[Len(vs) + i] = L[i]

\* C20: LPUSH k v1..vn on list L yields [vn, ..., v1] ++ L, the list that
\* inserting v1, v2, ..., vn one after the other at position 0 gives, and
\* returns len(L) + n.
C20_LpushPrepends == [](C20_Replies) /\ [][C20_PrependStep]_vars

C20_Witness ==
    \E c \in Conns :
        /\ op[c].cmd = "LPUSH" /\ Done(c)
        /\ op[c].was.list # <<>> /\ Len(op[c].vals) >= 2
        /\ reply[c].vals = <<Len(op[c].was.list) + Len(op[c].vals)>>

\* the indexes of C21: s' and e'
NormStart(start, len) == IF start < 0 THEN MaxOf(0, start + len) ELSE start
NormEnd(end, len) == IF end < 0 THEN MaxOf(0, end + len) ELSE MinOf(end, len - 1)

\* C21: on a stored list of length len >= 1, LRANGE start end returns exactly
\* the elements at positions s'..e' (counted from 0) and the empty array when
\* s' > e' or s' >= len; every position it reads lies inside the list.
C21_LrangeNormalised ==
    \A c \in Conns :
        (op[c].cmd = "LRANGE" /\ op[c].was.kind = "list"
                              /\ Len(op[c].was.list) >= 1)
        => LET list == op[c].was.list
               len == Len(list)
               s == NormStart(op[c].start, len)
               e == NormEnd(op[c].end, len)
           IN /\ reply[c].tag = "array"
              /\ IF s > e \/ s >= len THEN reply[c].vals = <<>>
                 ELSE /\ 0 <= s /\ e <= len - 1
                      /\ Len(reply[c].vals) = e - s + 1
                      /\ \A i \in 0..(e - s) :
                            reply[c].vals[i + 1] = list[s + i + 1]

C21_Witness ==
    \E c \in Conns :
        /\ op[c].cmd = "LRANGE" /\ Len(op[c].was.list) = MaxPush
        /\ op[c].start < 0 - MaxPush /\ op[c].end > MaxPush - 1
        /\ reply[c].tag = "array" /\ reply[c].vals = op[c].was.list

\* an LPOP with a count that is not negative
CountedPop(c) == op[c].cmd = "LPOPN" /\ op[c].count >= 0

\* C22, the reply: the first min(count, len) elements in list order, the
\* empty array for count = 0, null on an absent key.
C22_Replies ==
    \A c \in Conns :
        CountedPop(c) =>
            /\ op[c].was.kind = "list" =>
                  /\ reply[c].tag = "array"
                  /\ reply[c].vals =
                        SubSeq(op[c].was.list, 1,
                               MinOf(op[c].count, Len(op[c].was.list)))
            /\ op[c].was.kind = "none" => reply[c].tag = "nil"

\* C22, the step: the remaining elements stay in order, the key goes iff
\* count >= len, and count = 0 changes nothing.
C22_PopStep ==
    \A c \in Conns :
        ( /\ pc[c] = "new" /\ pc'[c] # "new" /\ op'[c].cmd = "LPOPN"
          /\ op'[c].count >= 0 /\ store[op'[c].key].kind = "list" )
        => LET k == op'[c].key
               list == store[k].list
               n == MinOf(op'[c].count, Len(list)) IN
            /\ (store'[k].kind = "none") <=> (op'[c].count >= Len(list))
            /\ store'[k].list = SubSeq(list, n + 1, Len(list))
            /\ op'[c].count = 0 => store' = store
            /\ \A j \in Keys : j # k => store'[j] = store[j]

\* C22: LPOP k count with count >= 0 on a list of length len returns the
\* first min(count, len) elements in list order and leaves the rest in
\* order; the key is deleted iff count >= len; count = 0 returns an empty
\* array and leaves the list unchanged; an absent key gives null.
C22_LpopCount == [](C22_Replies) /\ [][C22_PopStep]_vars

C22_Witness ==
    \E c, d \in Conns :
        /\ CountedPop(c) /\ op[c].count = 0 /\ op[c].was.kind = "list"
        /\ reply[c].tag = "array" /\ reply[c].vals = <<>>
        /\ CountedPop(d) /\ op[d].count = 1 /\ Len(op[d].was.list) = MaxPush
        /\ reply[d].vals = <<Head(op[d].was.list)>>
        /\ store[op[d].key].list = Tail(op[d].was.list)

\* C23: LPOP k count with count < 0 on a list is answered with an error and
\* removes no element.
C23_NegativeCountRejected ==
    \A c \in Conns :
        (op[c].cmd = "LPOPN" /\ op[c].count < 0 /\ op[c].was.kind = "list")
        => /\ reply[c].tag = "err"
           /\ \A i \in 1..Len(op[c].was.list) :
                 ~InSeq(reply[c].vals, op[c].was.list[i])

\* the commands that take elements out of a list
Pops == {"LPOP", "LPOPN", "BLPOP"}

\* C24: no key maps to an empty list; the pop that takes the last element
\* removes the key, so that TYPE answers none and LLEN answers 0 and neither
\* ever sees a list without elements.
C24_NoEmptyList ==
    /\ \A k \in Keys : store[k].kind = "list" => store[k].list # <<>>
    /\ \A c \in Conns :
        /\ op[c].cmd = "TYPE" =>
              /\ reply[c].key = "list" <=> op[c].was.list # <<>>
              /\ reply[c].key = "none" <=> op[c].was.kind = "none"
        /\ op[c].cmd = "LLEN" =>
              /\ reply[c].tag = "int"
              /\ reply[c].vals = <<0>> <=> op[c].was.kind = "none"

C24_Witness ==
    \E p, t \in Conns :
        /\ op[p].cmd \in Pops /\ op[t].cmd \in {"TYPE", "LLEN"}
        /\ t = p + 1
        /\ Done(p) /\ reply[p].vals # <<>>
        /\ op[t].was.kind = "none"
        /\ \E q \in Conns : q < p /\ op[q].cmd = "RPUSH" /\ Done(q)
                               /\ op[q].ws = <<>> /\ op[q].was.kind = "none"

\* the top id of the stream a XADD found: 0-0 for no or an empty stream
TopId(v) ==
    IF v.kind = "stream" /\ v.list # <<>> THEN v.list[Len(v.list)].id
    ELSE EntryId(0, 0)

\* a XADD with whole field/value pairs on a key holding a stream or nothing
WellFormedXadd(c) ==
    /\ op[c].cmd = "XADD" /\ op[c].nargs >= 2 /\ op[c].nargs % 2 = 0
    /\ op[c].was.kind \in {"none", "stream"}

\* C25: the ids of every stream ascend strictly; XADD with an id above the
\* stream's top id and above 0-0 (or with `*`) is answered with the id it
\* stored, any other with the matching error.
C25_XaddAscending ==
    /\ \A k \in Keys :
          store[k].kind = "stream" =>
              \A i \in 1..(Len(store[k].list) - 1) :
                  IdLess(store[k].list[i].id, store[k].list[i + 1].id)
    /\ \A c \in Conns :
          (WellFormedXadd(c) /\ pc[c] # "new") =>
              IF op[c].id.auto
              THEN reply[c].tag = "bulk"
              ELSE IF op[c].id = EntryId(0, 0)
              THEN reply[c].tag = "err"
                   /\ reply[c].key = "must be greater than 0-0"
              ELSE IF ~IdLess(TopId(op[c].was), op[c].id)
              THEN reply[c].tag = "err"
                   /\ reply[c].key = "equal or smaller than the target stream top item"
              ELSE reply[c].tag = "bulk" /\ reply[c].vals = <<op[c].id>>

RECURSIVE NewEntries(_, _, _)
\* per stream in argument order, the entries above its id; streams without
\* such an entry are left out
NewEntries(ks, ids, found) ==
    IF ks = <<>> THEN <<>>
    ELSE LET v == Head(found)
             Above(e) == IdLess(Head(ids), e.id)
             es == IF v.kind = "stream" THEN SelectSeq(v.list, Above)
                   ELSE <<>>
         IN (IF es = <<>> THEN <<>>
             ELSE <<[key |-> Head(ks), entries |-> es]>>)
            \o NewEntries(Tail(ks), Tail(ids), Tail(found))

\* C26: XREAD STREAMS k1..km id1..idm, for m >= 1, answers with the entries
\* above idi of each stream ki that has some, in argument order, and with
\* the empty array when none has.
C26_XreadManyStreams ==
    \A c \in Conns :
        (op[c].cmd = "XREAD" /\ Len(op[c].keys) >= 1
                             /\ Len(op[c].ids) = Len(op[c].keys))
        => /\ reply[c].tag = "streams"
           /\ reply[c].vals = NewEntries(op[c].keys, op[c].ids, op[c].found)

RECURSIVE AtOnce(_, _)
\* the whole byte sequence fed in one piece: parse, consume what is
\* Complete, parse again, until a parse is not Complete
AtOnce(buf, values) ==
    LET r == parse(buf) IN
    IF r.tag = "Complete"
    THEN AtOnce(SubSeq(buf, r.n + 1, Len(buf)), Append(values, r.value))
    ELSE [values |-> values, last |-> r.tag, rest |-> buf]

\* the bytes fed and not yet consumed
Unconsumed == SubSeq(fed, taken + 1, Len(fed))

\* the parser's caller is back at the read, or gone
Settled == stage \in {"idle", "closed"} /\ fed # <<>>

\* C27, the states: the result of a parse is that of the bytes fed and not
\* yet consumed, and however the bytes were cut into reads the values
\* decoded, the last result and the bytes left are those of feeding them in
\* one piece.
C27_Results ==
    /\ byte_buffer = Unconsumed
    /\ stage = "parsed" => result = parse(Unconsumed)
    /\ Settled =>
          LET whole == AtOnce(fed, <<>>) IN
          /\ decoded = whole.values
          /\ result.tag = whole.last
          /\ byte_buffer = whole.rest

\* C27, the step: parse leaves the buffer as it is.
C27_ParseStep == (stage = "fed" /\ stage' = "parsed") => byte_buffer' = byte_buffer

\* C27: the decoder is restartable and chunking-independent.
C27_ChunkingIndependent == [](C27_Results) /\ [][C27_ParseStep]_vars

C27_Witness ==
    /\ split /\ Settled /\ wire = <<>>
    /\ Len(decoded) = 2 /\ decoded = frames
    /\ result.tag = "Incomplete" /\ byte_buffer = <<>>

\* a client sent one frame and nothing of it is consumed yet
OneFrame == origin = "client" /\ Len(frames) = 1 /\ taken = 0

\* C28: parsing a proper prefix of a well-formed frame's encoding gives
\* Incomplete, parsing the whole encoding gives Complete with that value;
\* an array with an element still incomplete is Incomplete.
C28_PrefixIncomplete ==
    (OneFrame /\ stage = "parsed") =>
        IF Len(fed) < Len(Encode(frames[1]))
        THEN result = Incomplete
        ELSE result = Complete(frames[1], Len(Encode(frames[1])))

C28_Witness ==
    /\ OneFrame /\ stage = "parsed" /\ split
    /\ frames[1].t = "Array" /\ Len(frames[1].es) = 2
    /\ frames[1].es[1].t = "Array"
    /\ result = Complete(frames[1], Len(fed))

\* a client sent two frames back to back
TwoFrames == origin = "client" /\ Len(frames) = 2

\* C29: with a complete frame and further bytes in the buffer, parse returns
\* Complete(v, n) with n the encoded length of that frame; after consume(n)
\* the next parse decodes the next frame: two frames decode to their two
\* values in order, nothing skipped, nothing read twice.
C29_FrameByFrame ==
    TwoFrames =>
        LET n1 == Len(Encode(frames[1]))
            n2 == Len(Encode(frames[2])) IN
        /\ Len(decoded) <= 2
        /\ \A i \in 1..Len(decoded) : decoded[i] = frames[i]
        /\ taken = (IF Len(decoded) >= 1 THEN n1 ELSE 0)
                    + (IF Len(decoded) = 2 THEN n2 ELSE 0)
        /\ (stage = "parsed" /\ Len(decoded) = 0 /\ Len(fed) >= n1) =>
              result = Complete(frames[1], n1)
        /\ (stage = "parsed" /\ Len(decoded) = 1 /\ Len(fed) >= n1 + n2) =>
              result = Complete(frames[2], n2)
        /\ (Settled /\ wire = <<>>) => decoded = frames /\ byte_buffer = <<>>

C29_Witness ==
    /\ TwoFrames /\ stage = "parsed" /\ ~split
    /\ Len(decoded) = 1 /\ frames[1].t = "Array" /\ Len(frames[1].es) = 2
    /\ result = Complete(frames[2], Len(Encode(frames[2])))
    /\ frames[2].t = "BulkString" /\ frames[2].s = CRLF

\* C30: the reply GET, LPOP, LRANGE and BLPOP write for stored bytes b, also
\* bytes that are no UTF-8, is a well-formed frame that the decoder decodes
\* back to exactly b, consuming the whole reply.
C30_RepliesDecodeBack ==
    (origin \in {"get", "lrange", "blpop"} /\ Settled /\ wire = <<>>) =>
        /\ decoded = frames
        /\ taken = Len(fed)
        /\ stage = "idle"

\* the text between the type byte and the first CRLF of the bytes received
HeaderText(buf) == SubSeq(buf, 2, find_crlf(buf, 1))

\* a length or count as the protocol writes it: digits, or -1
DigitsOrMinusOne(text) ==
    \/ text = <<"-", "1">>
    \/ text # <<>> /\ \A i \in 1..Len(text) : IsDigit(text[i])

\* the first frame on the connection is a bulk string or an array whose
\* header line has arrived and is written in another way
OddHeader ==
    /\ taken = 0
    /\ byte_buffer # <<>>
    /\ byte_buffer[1] \in {"$", "*"}
    /\ find_crlf(byte_buffer, 1) # NotFound
    /\ ~DigitsOrMinusOne(HeaderText(byte_buffer))

\* C31: a bulk-string length or array count whose text is anything other
\* than ASCII digits or exactly -1 (+5, -0, the empty text, abc, a value
\* below -1) is rejected with Error and never produces a decoded value.
C31_LengthTextRejected ==
    (stage = "parsed" /\ OddHeader) => result = ParseError

---------------------------------------------------------------------------
(* C32, C33: one connection *)

\* the position of the first entry of the session that is no frame
FirstBad ==
    IF \E i \in 1..Len(frames) : frames[i].t = "Garbage"
    THEN CHOOSE i \in 1..Len(frames) :
            frames[i].t = "Garbage" /\ \A j \in 1..(i - 1) : frames[j].t # "Garbage"
    ELSE Len(frames) + 1

\* the frames sent before it
Sound == SubSeq(frames, 1, FirstBad - 1)

\* the bytes of the first i entries of the session
EndOf(i) == Len(Join([j \in 1..i |-> Sent(frames[j])]))

\* the socket is drained and the worker is back in read, or has returned
Quiet == wire = <<>> /\ stage \in {"idle", "closed"} /\ fed # <<>>

\* the reply the i-th command of the session must get when it fails in its
\* handler; <<>> when it does not fail
Failure(i) ==
    IF frames[i] = GetNoKey
    THEN <<"-ERR wrong number of arguments for 'GET' command">> \o CRLF
    ELSE IF frames[i] = SetOdd
    THEN <<"-ERR syntax error, unexpected option '", "A",
           "'. Only 'EX' or 'PX' are allowed">>
    ELSE IF frames[i] = Nonsense
    THEN <<"-ERR unknown command: '", "A", "'">> \o CRLF
    ELSE IF frames[i] = RpushAB /\ \E j \in 1..(i - 1) : frames[j] = SetAB
    THEN <<"-">> \o WrongTypeText \o CRLF
    ELSE <<>>

\* the worker unwound inside a handler (Storage::xadd is todo!())
Unwinding == stage = "closed" /\ result.tag = "Complete"

\* C32: a decode Error ends the connection, no frame after the malformed one
\* is executed; a command that fails in its handler (wrong argument count,
\* WrongType, syntax error, unknown command) only gets an error reply, and
\* the commands that follow it are executed.
C32_State ==
    /\ Len(decoded) <= Len(Sound)
    /\ Len(out) <= Len(Sound) + 1
    /\ \A i \in 1..Len(decoded) :
        /\ decoded[i] = frames[i]
        /\ Failure(i) # <<>> =>
            /\ out[i] = Failure(i)
            /\ (Quiet /\ i < Len(frames)) =>
                \/ Len(decoded) > i
                \/ frames[i + 1] = Garbage /\ stage = "closed"
                \/ frames[i + 1] = XaddAB /\ Unwinding
    /\ Len(out) > Len(decoded) =>
        /\ stage = "closed"
        /\ Len(decoded) = Len(Sound)
        /\ out[Len(out)] = ErrorText
    /\ (Quiet /\ FirstBad <= Len(frames) /\ ~Unwinding) =>
        /\ stage = "closed"
        /\ Len(decoded) = Len(Sound)

C32_Closed == stage = "closed" => UNCHANGED <<decoded, out, store, stage>>

C32_ErrorEndsConnection == [](C32_State) /\ [][C32_Closed]_vars

\* a SET, a push that is a WrongType, then garbage: the failing command gets
\* its error reply, the worker goes on to the garbage, writes the decoder's
\* message and returns
C32_Witness ==
    /\ frames = <<SetAB, RpushAB, Garbage>>
    /\ stage = "closed"
    /\ decoded = <<SetAB, RpushAB>>
    /\ out = <<<<"+OK">> \o CRLF, Failure(2), ErrorText>>
    /\ store[<<"a">>].kind = "string"

\* the replies of a sequence of commands executed one after the other
RECURSIVE Replies(_, _)
Replies(fs, st) ==
    IF fs = <<>> THEN <<>>
    ELSE LET r == handle_command(Head(fs), st) IN
         <<r.reply>> \o Replies(Tail(fs), r.store)

\* the frames handed to handle_command so far: the ones consumed, and the one
\* whose handler unwound the worker
Handed == Len(decoded) + (IF Unwinding THEN 1 ELSE 0)

\* C33: for every chunking of the input into reads, each complete frame is
\* executed exactly once, in arrival order, and the replies are written in
\* that order; the frames that arrived in one read are all executed before
\* the next read, and a frame split across reads is executed only after its
\* last byte has arrived.
C33_OnceInOrder ==
    /\ decoded = SubSeq(Sound, 1, Len(decoded))
    /\ SubSeq(out, 1, Len(decoded)) =
            Replies(decoded, [k \in SessionKeys |-> Absent])
    /\ \A i \in 1..Len(decoded) : EndOf(i) <= Len(fed)
    /\ stage \in {"idle", "closed"} =>
            \A i \in 1..Len(Sound) : EndOf(i) <= Len(fed) => i <= Handed

---------------------------------------------------------------------------
(* C34..C40: the waiter queue and the two locks *)

\* C34: BLPOP's check-then-enqueue is atomic with respect to pushes: when a
\* push to K starts after a BLPOP on K has started (also between its scan
\* and its enqueue) and no other consumer exists, the BLPOP gets the element;
\* it never stays parked while the element sits in the list.
C34_ParkedNeverMissesPush ==
    \A w, p \in Conns :
        ( /\ nconn = 2 /\ w = 1 /\ p = 2
          /\ Blpop(w) /\ op[w].t = 0
          /\ op[p].cmd = "RPUSH" /\ Done(p)
          /\ pc[w] = "parked" )
        => \A i \in 1..Len(op[w].keys) : store[op[w].keys[i]].list = <<>>

\* the waiter created by connection d is in the queue ws
Queued(ws, d) == \E i \in 1..Len(ws) : ws[i].id = d

\* C35: when a waiter times out, exactly its own entry leaves the waiter
\* queue: every other parked waiter, also one blocked on the identical key
\* list, stays queued and keeps its response channel open.
C35_Retain ==
    \A c \in Conns :
        (pc[c] = "retain" /\ pc'[c] = "done" /\ chan[c].toAt >= 0) =>
            \A d \in Conns \ {c} :
                Queued(waiters, d) =>
                    /\ Queued(waiters', d)
                    /\ chan'[d].st = chan[d].st

C35_TimeoutRemovesOnlyItself == [][C35_Retain]_vars

\* thread c is blocked in lock()
Waiting(c) == pc[c] # "new" /\ Needs(pc[c]) # "none" /\ ~Entered(c)

\* connection d has issued a command that does not block, and the command
\* has not returned yet
Running(d) == op[d].cmd \in {"RPUSH", "LPOP", "SET"} /\ ~Done(d)

\* some client sleeps in the recv of BLPOP's slow path
SomeParked == \E c \in Conns : pc[c] = "parked" /\ chan[c].st = "open"

\* C36: while a client is parked in BLPOP's slow path it holds neither the
\* keyspace mutex nor the waiter-queue mutex, so every non-blocking command
\* another client issues meanwhile (SET, RPUSH, LPOP, a further BLPOP
\* enqueue) completes.
C36_ParkedHoldsNothing ==
    \A c \in Conns :
        pc[c] = "parked" => ~Holds(c, "inner") /\ ~Holds(c, "waiters")

C39_NeverBoth ==
    \A c \in Conns : ~(Holds(c, "inner") /\ Holds(c, "waiters"))

C37_NoWaiterOfReturnedCall ==
    \A i \in 1..Len(waiters) :
        /\ Blpop(waiters[i].id)
        /\ ~Done(waiters[i].id)
        /\ reply[waiters[i].id] = NoReply

\* one call has returned by delivery while another, enqueued behind it, is
\* parked with its waiter in the queue
C37_Witness ==
    \E b, c \in Conns :
        /\ Done(b) /\ reply[b].tag = "pair" /\ chan[b].st = "recvd"
        /\ pc[c] = "parked" /\ Queued(waiters, c)
        /\ chan[b].ord < chan[c].ord

\* no command is in the middle of its execution: every worker is idle, has
\* replied, has ended, or sleeps in recv with nothing sent to it
Quiescent ==
    \A c \in Conns :
        \/ pc[c] \in {"new", "done", "dead"}
        \/ pc[c] = "parked" /\ chan[c].st = "open"

\* C38: in every quiescent state no waiter remains parked on a key K while
\* the list at K is non-empty: an element is left in a list only when
\* nobody is waiting for it.
C38_NoParkedWaiterOnNonEmptyList ==
    Quiescent =>
        \A c \in Conns :
            (pc[c] = "parked" /\ Queued(waiters, c)) =>
                \A i \in 1..Len(op[c].keys) : ~NonEmptyList(store, op[c].keys[i])

\* the key arguments of connection c's BLPOP: the elements between the
\* command name and the timeout
Named(c) == {op[c].keys[i] : i \in 2..Len(op[c].keys)}

\* C40: BLPOP only ever pops from, parks on, or reports a key that is one of
\* its key arguments: a list stored under the text of the command name (the
\* key `BLPOP`) is never popped by, and never wakes, a BLPOP that did not
\* name it.
C40_OnlyNamedKeys ==
    \A c \in Conns :
        Blpop(c) =>
            /\ reply[c].tag = "pair" => reply[c].key \in Named(c)
            /\ chan[c].st \in {"msg", "recvd"} => chan[c].key \in Named(c)

====
